---- MODULE Spec2Model ----
(***************************************************************************)
(* Human-handoff subsystem of ImprovedRAG: the Redis-backed session store  *)
(* and support queue (src/support_handoff.py), the WebSocket connection    *)
(* registry (src/RAGnoQdrant/chat_server.py) and the yes/no parser of the  *)
(* pending-action gate (src/RAGImprovedHandoff/conversation_manager.py).   *)
(*                                                                         *)
(* Redis is modelled by what its commands do: a hash is a function from    *)
(* the fields that are set to their values (a key exists iff its hash has  *)
(* at least one field), a list is a sequence, a key with a TTL may vanish  *)
(* at any moment.  Session ids (uuid4) are the integers 1..MaxSessions in  *)
(* creation order; UnknownId is an id create_session never issues.         *)
(* datetime.now().isoformat() is the opaque non-empty value Now.           *)
(***************************************************************************)
EXTENDS Integers, Sequences, FiniteSets, TLC

VARIABLES store, expires, queue, nextId, active_connections, last, steps,
          wpc, wlocal, text, result,
          pending_handoff, pending_action, clock,
          channel, ws_to_session, handlers, inbox,
          pending_feedback, feedback_file, agents, session_deadline,
          qpc, qlocal

vars == <<steps, store, expires, queue, nextId, active_connections, last,
          wpc, wlocal, text, result,
          pending_handoff, pending_action, clock,
          channel, ws_to_session, handlers, inbox,
          pending_feedback, feedback_file, agents, session_deadline,
          qpc, qlocal>>

\* The WebSocket side: channel[s][role] is the socket registered for the
\* role in active_connections[s] (active_connections keeps the keys),
\* ws_to_session the reverse index, handlers the connection tasks, inbox the
\* events sent to each socket so far.
chat_vars == <<channel, ws_to_session, handlers, inbox>>

\* answer_query calls in progress: qpc is each call's position, qlocal the
\* values it holds between its calls to Redis.
request_vars == <<qpc, qlocal>>

\* FeedbackManager: the pending records and the append-only feedback file.
feedback_vars == <<pending_feedback, feedback_file>>

(* ------------------------------ bounds -------------------------------- *)

\* Sessions created in one run.
MaxSessions == 3

\* Operations (calls and TTL expiries) in one run.
MaxSteps == 4

MaxLen == 4

\* Calls on the pending-action gate in one run.
MaxCalls == 3

\* Time that passes in one run, in units of TimeUnit seconds.
MaxTime == 2

\* WebSocket connections opened in one run.
MaxSockets == 3

\* Feedback records created in one run.
MaxFeedback == 2

\* Handler steps in one run of the WebSocket section.
MaxChatSteps == 5

UnknownId == MaxSessions + 1

SessionIds == 1..MaxSessions

Ids == {UnknownId} \cup SessionIds

Agents == {"A1", "A2"}

\* f"Agent {agent_id[:8]}" (dashboard) and f"Agent {agent_id[:4]}" (chat
\* server) agree on ids of at most four characters.
AgentName(agent_id) == IF agent_id = "A1" THEN "Agent A1" ELSE "Agent A2"

Roles == {"user", "agent"}

Resolutions == {"resolved", "unresolved"}

NoRating == 0

Now == "ts"

\* A query or message text is a sequence of words; substring tests of the
\* source on keywords become membership tests on words.
Queries == {<<"order", "status">>, <<"urgent", "order">>}

Contents == {<<"hello">>}

\* The system message of close_session ("chat ended", in Russian in the source).
ChatEnded == <<"chat ended">>

NoHash == <<>>

Users == {"u1", "u2"}

Sockets == 1..MaxSockets

\* No socket: the role has no entry in active_connections[s].
NoSocket == MaxSockets + 1

\* No session: the socket has no entry in ws_to_session.
NoSession == UnknownId + 1

FeedbackIds == 1..MaxFeedback

\* A connection task that has not started.
FreeHandler == [state |-> "free", sid |-> NoSession, role |-> "", agent_id |-> ""]

InitChat ==
    /\ channel = [s \in Ids |-> [role \in Roles |-> NoSocket]]
    /\ ws_to_session = [w \in Sockets |-> NoSession]
    /\ handlers = [w \in Sockets |-> FreeHandler]
    /\ inbox = [w \in Sockets |-> <<>>]

InitFeedback ==
    /\ pending_feedback = [f \in FeedbackIds |-> NoHash]
    /\ feedback_file = <<>>

\* The agents hash does not exist.
InitPresence == agents = [hash |-> NoHash, deadline |-> 0]

\* The two answer_query calls that may run at the same time.
Requests == {"r1", "r2"}

\* No answer_query call is running.
InitRequests ==
    /\ qpc = [t \in Requests |-> "idle"]
    /\ qlocal = [t \in Requests |-> <<>>]

\* No session key has a time to live.
InitTtl == session_deadline = [s \in Ids |-> 0]

(* ------------------------- Redis primitives --------------------------- *)

Range(seq) == {seq[i] : i \in DOMAIN seq}

\* EXISTS key
Exists(st, s) == DOMAIN st[s] # {}

\* HSET key mapping: sets the given fields, keeps the others.
HSet(h, m) == [f \in DOMAIN h \cup DOMAIN m |-> IF f \in DOMAIN m THEN m[f] ELSE h[f]]

\* HGET key field: None when the key or the field is missing.
HasField(st, s, f) == f \in DOMAIN st[s]

\* LREM key 0 value: removes every occurrence of value.
RECURSIVE LRem(_, _)
LRem(q, s) ==
    IF q = <<>> THEN <<>>
    ELSE IF Head(q) = s THEN LRem(Tail(q), s)
    ELSE <<Head(q)>> \o LRem(Tail(q), s)

LPush(q, s) == <<s>> \o q

RPush(q, s) == Append(q, s)

\* json.dumps / json.loads of the message log: the encoded blob is a value
\* distinct from the list it encodes.
json_dumps(v) == [json |-> v]

json_loads(j) == j.json

(* --------------------------- SupportHandoff --------------------------- *)

\* The keyword list of _calculate_priority; the Russian and Azerbaijani words
\* are written in ASCII transliteration.
high_priority_keywords ==
    {"srochno", "urgent", "tecili", "ne rabotaet", "islemir", "not working",
     "oshibka", "xeta", "error", "dengi", "pul", "money",
     "ne prishyol", "gelmedi", "didn't arrive"}

_calculate_priority(query) ==
    IF \E i \in DOMAIN query : query[i] \in high_priority_keywords
    THEN "high" ELSE "normal"

Message(role, content, metadata) ==
    IF metadata # ""
    THEN [role |-> role, content |-> content, timestamp |-> Now, metadata |-> metadata]
    ELSE [role |-> role, content |-> content, timestamp |-> Now]

session_data(session_id, query) ==
    [ session_id  |-> session_id,
      status      |-> "waiting",
      query       |-> query,
      created_at  |-> Now,
      priority    |-> _calculate_priority(query),
      agent_id    |-> "",
      agent_name  |-> "",
      assigned_at |-> "",
      closed_at   |-> "",
      resolution  |-> "",
      rating      |-> "",
      messages    |-> json_dumps(<<Message("user", query, "")>>) ]

\* Mutant: the priority is ignored and every session is appended.
enqueue_tail_only(q, session_id, priority) == RPush(q, session_id)

\* create_session, the queue insert: LPUSH for high, RPUSH otherwise.
enqueue(q, session_id, priority) ==
    IF priority = "high" THEN LPush(q, session_id) ELSE RPush(q, session_id)

_notify_operators(session_id, data) ==
    [ channel  |-> "birmarket:support_notifications",
      event    |-> "new_support_request",
      session  |-> session_id,
      priority |-> data.priority ]

\* Mutant: a missing key yields an empty record with the id, not None.
get_session_default(st, s) ==
    IF ~Exists(st, s) THEN [session_id |-> s]
    ELSE IF HasField(st, s, "messages")
         THEN HSet(st[s], [messages |-> json_loads(st[s]["messages"])])
         ELSE st[s]

\* get_session: the decoded record, or None (NoHash) when the key is missing.
get_session(st, s) ==
    IF ~Exists(st, s) THEN NoHash
    ELSE IF HasField(st, s, "messages")
         THEN HSet(st[s], [messages |-> json_loads(st[s]["messages"])])
         ELSE st[s]

\* get_queue: the records of the queued ids that still exist.
get_queue(st, q) == SelectSeq(q, LAMBDA s : Exists(st, s))

\* get_queue_position: 1-based index in the raw list, 0 for None.
get_queue_position(q, s) ==
    IF s \in Range(q) THEN CHOOSE i \in DOMAIN q : q[i] = s /\ \A j \in 1..(i-1) : q[j] # s
    ELSE 0

\* Mutant: the existence check is missing.
assign_agent_no_check(st, s, agent_id, agent_name) ==
    <<TRUE, [st EXCEPT ![s] = HSet(@, [ status      |-> "assigned",
                                        agent_id    |-> agent_id,
                                        agent_name  |-> agent_name,
                                        assigned_at |-> Now ])]>>

\* assign_agent, the store part; the result is <<returned, store>>.
assign_agent(st, s, agent_id, agent_name) ==
    IF ~Exists(st, s) THEN <<FALSE, st>>
    ELSE <<TRUE, [st EXCEPT ![s] = HSet(@, [ status      |-> "assigned",
                                             agent_id    |-> agent_id,
                                             agent_name  |-> agent_name,
                                             assigned_at |-> Now ])]>>

\* Mutant: the head of the queue is popped instead of removing the id.
assign_agent_queue_pop(st, q, s) ==
    IF ~Exists(st, s) \/ q = <<>> THEN q ELSE Tail(q)

\* assign_agent, the queue part.
assign_agent_queue(st, q, s) == IF ~Exists(st, s) THEN q ELSE LRem(q, s)

activate_session(st, s) == [st EXCEPT ![s] = HSet(@, [status |-> "active"])]

\* add_message, first half: HGET messages and decode ([] when missing).
add_message_read(st, s) ==
    IF HasField(st, s, "messages") THEN json_loads(st[s]["messages"]) ELSE <<>>

\* add_message, second half: append to the list read and HSET the blob.
add_message_write(st, s, messages, message) ==
    [st EXCEPT ![s] = HSet(@, [messages |-> json_dumps(Append(messages, message))])]

add_message_publish(s, message) ==
    [ channel |-> "birmarket:chat", session |-> s, event |-> message ]

\* add_message run without interruption.
add_message(st, s, role, content, metadata) ==
    add_message_write(st, s, add_message_read(st, s), Message(role, content, metadata))

update_data(resolution, rating) ==
    IF rating # NoRating
    THEN [status |-> "closed", closed_at |-> Now, resolution |-> resolution,
          rating |-> ToString(rating)]
    ELSE [status |-> "closed", closed_at |-> Now, resolution |-> resolution]

\* Mutant: the system message is not appended.
close_session_no_message(st, s, resolution, rating) ==
    [st EXCEPT ![s] = HSet(@, update_data(resolution, rating))]

\* close_session, the store part: HSET update_data, then add_message.
close_session(st, s, resolution, rating) ==
    add_message([st EXCEPT ![s] = HSet(@, update_data(resolution, rating))],
                s, "system", ChatEnded, "")

\* close_session, the queue part.
close_session_queue(q, s) == LRem(q, s)

(* ------------------------- ConnectionManager -------------------------- *)

\* Mutant: connect_user never activates.
connect_user_no_activate(st, conns, s) == st

\* connect_user, the store part: activate when the agent is already attached.
connect_user(st, conns, s) ==
    IF "agent" \in conns[s] THEN activate_session(st, s) ELSE st

\* connect_agent, the store part: assign_agent, then activate when the user
\* is already attached.
connect_agent(st, conns, s, agent_id, agent_name) ==
    LET assigned == assign_agent(st, s, agent_id, agent_name)[2]
    IN  IF "user" \in conns[s] THEN activate_session(assigned, s) ELSE assigned

(* ------------------- operations, one call at a time ------------------- *)

\* Ids a caller can name: those issued so far and one never issued.
Known == {s \in SessionIds : s < nextId} \cup {UnknownId}

Called(op, s, arg, ret, pub) ==
    /\ steps < MaxSteps
    /\ steps' = steps + 1
    /\ last' = [op |-> op, sid |-> s, arg |-> arg, ret |-> ret, pub |-> pub]

Idle ==
    UNCHANGED <<wpc, wlocal, text, result, pending_handoff, pending_action, clock,
                chat_vars, feedback_vars, agents, session_deadline, request_vars>>

CreateSession(query) ==
    LET session_id == nextId
        data == session_data(session_id, query)
    IN  /\ nextId <= MaxSessions
        /\ store' = [store EXCEPT ![session_id] = HSet(@, data)]
        /\ queue' = enqueue(queue, session_id, data.priority)
        /\ expires' = expires \cup {session_id}
        /\ nextId' = nextId + 1
        /\ Called("create_session", session_id, query, session_id,
                  <<_notify_operators(session_id, data)>>)
        /\ UNCHANGED active_connections
        /\ Idle

AssignAgent(s, agent_id) ==
    LET r == assign_agent(store, s, agent_id, AgentName(agent_id))
    IN  /\ store' = r[2]
        /\ queue' = assign_agent_queue(store, queue, s)
        /\ Called("assign_agent", s, agent_id, r[1], <<>>)
        /\ UNCHANGED <<expires, nextId, active_connections>>
        /\ Idle

ConnectUser(s) ==
    /\ active_connections' = [active_connections EXCEPT ![s] = @ \cup {"user"}]
    /\ store' = connect_user(store, active_connections', s)
    /\ Called("connect_user", s, "", "None", <<>>)
    /\ UNCHANGED <<expires, queue, nextId>>
    /\ Idle

ConnectAgent(s, agent_id) ==
    /\ active_connections' = [active_connections EXCEPT ![s] = @ \cup {"agent"}]
    /\ store' = connect_agent(store, active_connections', s, agent_id, AgentName(agent_id))
    /\ queue' = assign_agent_queue(store, queue, s)
    /\ Called("connect_agent", s, agent_id, "None", <<>>)
    /\ UNCHANGED <<expires, nextId>>
    /\ Idle

Disconnect(s, role) ==
    /\ role \in active_connections[s]
    /\ active_connections' = [active_connections EXCEPT ![s] = @ \ {role}]
    /\ Called("disconnect", s, role, "None", <<>>)
    /\ UNCHANGED <<store, expires, queue, nextId>>
    /\ Idle

AddMessage(s, role, content) ==
    LET metadata == IF role = "agent" THEN "agent" ELSE ""
    IN  /\ store' = add_message(store, s, role, content, metadata)
        /\ Called("add_message", s, role, "None",
                  <<add_message_publish(s, Message(role, content, metadata))>>)
        /\ UNCHANGED <<expires, queue, nextId, active_connections>>
        /\ Idle

CloseSession(s, resolution, rating) ==
    /\ store' = close_session(store, s, resolution, rating)
    /\ queue' = close_session_queue(queue, s)
    /\ Called("close_session", s, resolution, "None",
              <<add_message_publish(s, Message("system", ChatEnded, ""))>>)
    /\ UNCHANGED <<expires, nextId, active_connections>>
    /\ Idle

\* The TTL set by create_session (EXPIRE key 10800) runs out: the key is
\* deleted; the queue list is another key and keeps the id.
Expire(s) ==
    /\ s \in expires
    /\ store' = [store EXCEPT ![s] = NoHash]
    /\ expires' = expires \ {s}
    /\ Called("expire", s, "", "None", <<>>)
    /\ UNCHANGED <<queue, nextId, active_connections>>
    /\ Idle

Init ==
    /\ store = [s \in Ids |-> NoHash]
    /\ expires = {}
    /\ queue = <<>>
    /\ nextId = 1
    /\ active_connections = [s \in Ids |-> {}]
    /\ steps = 0
    /\ last = [op |-> "init", sid |-> UnknownId, arg |-> "", ret |-> "None", pub |-> <<>>]
    /\ wpc = [w \in Roles |-> "idle"]
    /\ wlocal = [w \in Roles |-> <<>>]
    /\ text = <<>>
    /\ result = "none"
    /\ pending_handoff = [u \in Users |-> <<>>]
    /\ pending_action = [u \in Users |-> <<>>]
    /\ clock = 0
    /\ InitChat
    /\ InitFeedback
    /\ InitPresence
    /\ InitTtl
    /\ InitRequests

Next ==
    \/ \E query \in Queries : CreateSession(query)
    \/ \E s \in Known, a \in Agents : AssignAgent(s, a)
    \/ \E s \in Known : ConnectUser(s)
    \/ \E s \in Known, a \in Agents : ConnectAgent(s, a)
    \/ \E s \in Known, role \in Roles : Disconnect(s, role)
    \/ \E s \in Known, role \in Roles, content \in Contents : AddMessage(s, role, content)
    \/ \E s \in Known, r \in Resolutions : CloseSession(s, r, NoRating)
    \/ \E s \in Known : Expire(s)

Spec == Init /\ [][Next]_vars

(* ------------- add_message and close_session, command by command ------- *)

\* Two connection tasks (the user's and the agent's) run add_message and
\* close_session as the Redis commands they issue, one command per step;
\* nothing but the commands themselves is atomic.  wpc is each task's
\* position, wlocal the values it holds between commands.

Begin ==
    /\ steps < MaxSteps
    /\ steps' = steps + 1
    /\ UNCHANGED last

End(op, s, arg, pub) ==
    /\ last' = [op |-> op, sid |-> s, arg |-> arg, ret |-> "None", pub |-> pub]
    /\ UNCHANGED steps

Rest ==
    UNCHANGED <<expires, nextId, active_connections, text, result,
                pending_handoff, pending_action, clock,
                chat_vars, feedback_vars, agents, session_deadline, request_vars>>

\* add_message: HGET messages, json.loads, build the message.
AddMessageRead(w, s, content) ==
    /\ wpc[w] = "idle"
    /\ wpc' = [wpc EXCEPT ![w] = "write"]
    /\ wlocal' = [wlocal EXCEPT ![w] =
                    [ sid      |-> s,
                      messages |-> add_message_read(store, s),
                      message  |-> Message(w, content, IF w = "agent" THEN "agent" ELSE "") ]]
    /\ Begin
    /\ UNCHANGED <<store, queue>>
    /\ Rest

\* add_message: append, HSET messages, PUBLISH.
AddMessageWrite(w) ==
    /\ wpc[w] = "write"
    /\ store' = add_message_write(store, wlocal[w].sid, wlocal[w].messages, wlocal[w].message)
    /\ wpc' = [wpc EXCEPT ![w] = "idle"]
    /\ wlocal' = [wlocal EXCEPT ![w] = <<>>]
    /\ End("add_message", wlocal[w].sid, w,
           <<add_message_publish(wlocal[w].sid, wlocal[w].message)>>)
    /\ UNCHANGED queue
    /\ Rest

\* close_session: HSET update_data.
CloseSessionUpdate(w, s, resolution) ==
    /\ wpc[w] = "idle"
    /\ store' = [store EXCEPT ![s] = HSet(@, update_data(resolution, NoRating))]
    /\ wpc' = [wpc EXCEPT ![w] = "close_read"]
    /\ wlocal' = [wlocal EXCEPT ![w] = [sid |-> s, resolution |-> resolution]]
    /\ Begin
    /\ UNCHANGED queue
    /\ Rest

\* close_session, in add_message: HGET messages.
CloseSessionRead(w) ==
    /\ wpc[w] = "close_read"
    /\ wpc' = [wpc EXCEPT ![w] = "close_write"]
    /\ wlocal' = [wlocal EXCEPT ![w] =
                    [ sid        |-> wlocal[w].sid,
                      resolution |-> wlocal[w].resolution,
                      messages   |-> add_message_read(store, wlocal[w].sid),
                      message    |-> Message("system", ChatEnded, "") ]]
    /\ UNCHANGED <<store, queue, steps, last>>
    /\ Rest

\* close_session, in add_message: HSET messages, PUBLISH.
CloseSessionWrite(w) ==
    /\ wpc[w] = "close_write"
    /\ store' = add_message_write(store, wlocal[w].sid, wlocal[w].messages, wlocal[w].message)
    /\ wpc' = [wpc EXCEPT ![w] = "close_lrem"]
    /\ wlocal' = [wlocal EXCEPT ![w] = [sid |-> wlocal[w].sid, resolution |-> wlocal[w].resolution]]
    /\ UNCHANGED <<queue, steps, last>>
    /\ Rest

\* close_session: LREM queue 0 session_id.
CloseSessionLRem(w) ==
    /\ wpc[w] = "close_lrem"
    /\ queue' = close_session_queue(queue, wlocal[w].sid)
    /\ wpc' = [wpc EXCEPT ![w] = "idle"]
    /\ wlocal' = [wlocal EXCEPT ![w] = <<>>]
    /\ End("close_session", wlocal[w].sid, wlocal[w].resolution,
           <<add_message_publish(wlocal[w].sid, Message("system", ChatEnded, ""))>>)
    /\ UNCHANGED store
    /\ Rest

NextConc ==
    \/ \E query \in Queries : CreateSession(query)
    \/ \E w \in Roles, s \in Known, content \in Contents : AddMessageRead(w, s, content)
    \/ \E w \in Roles : AddMessageWrite(w)
    \/ \E s \in Known, r \in Resolutions : CloseSessionUpdate("agent", s, r)
    \/ \E w \in Roles : CloseSessionRead(w)
    \/ \E w \in Roles : CloseSessionWrite(w)
    \/ \E w \in Roles : CloseSessionLRem(w)

SpecConc == Init /\ [][NextConc]_vars

(* ------------------ ConversationState.parse_user_response ------------- *)

\* A text is a sequence of characters; an ASCII character is written as
\* itself and any other as its code point, "U+0434" being the Cyrillic
\* letter de.  yes_patterns and no_patterns are the lists of the source, in
\* the order of the source.

yes_patterns ==
    << <<"U+0434", "U+0430">>,
       <<"y", "e", "s">>,
       <<"b", "U+0259", "l", "i">>,
       <<"e", "v", "e", "t">>,
       <<"h", "a", "i">>,
       <<"U+043A", "U+043E", "U+043D", "U+0435", "U+0447", "U+043D", "U+043E">>,
       <<"o", "f", " ", "c", "o", "u", "r", "s", "e">>,
       <<"U+0259", "l", "b", "U+0259", "t", "t", "U+0259">>,
       <<"t", "a", "b", "i", "i">>,
       <<"s", "u", "r", "e">>,
       <<"U+0445", "U+043E", "U+0440", "U+043E", "U+0448", "U+043E">>,
       <<"o", "k">>,
       <<"o", "k", "a", "y">>,
       <<"y", "a", "x", "U+015F", "U+0131">>,
       <<"t", "a", "m", "a", "m">>,
       <<"a", "l", "r", "i", "g", "h", "t">>,
       <<"U+0434", "U+0430", "U+0432", "U+0430", "U+0439">>,
       <<"g", "U+0259", "l">>,
       <<"l", "e", "t", "'", "s", " ", "g", "o">>,
       <<"U+0441", "U+043E", "U+0435", "U+0434", "U+0438", "U+043D", "U+0438">>,
       <<"c", "o", "n", "n", "e", "c", "t">>,
       <<"b", "a", "U+011F", "l", "a">>,
       <<"U+043F", "U+043E", "U+0434", "U+0442", "U+0432", "U+0435", "U+0440", "U+0436", "U+0434", "U+0430", "U+044E">>,
       <<"c", "o", "n", "f", "i", "r", "m">>,
       <<"t", "U+0259", "s", "d", "i", "q">>,
       <<"+">>,
       <<"U+1F44D">>,
       <<"U+2705">>,
       <<"U+2713">> >>

no_patterns ==
    << <<"U+043D", "U+0435", "U+0442">>,
       <<"n", "o">>,
       <<"x", "e", "y", "r">>,
       <<"h", "a", "y", "U+0131", "r">>,
       <<"y", "o", "k">>,
       <<"U+043D", "U+0435", " ", "U+043D", "U+0430", "U+0434", "U+043E">>,
       <<"n", "o", "t", " ", "n", "e", "e", "d", "e", "d">>,
       <<"l", "a", "z", "U+0131", "m", " ", "d", "e", "y", "i", "l">>,
       <<"g", "e", "r", "e", "k", " ", "y", "o", "k">>,
       <<"U+043E", "U+0442", "U+043C", "U+0435", "U+043D", "U+0430">>,
       <<"c", "a", "n", "c", "e", "l">>,
       <<"l", "U+0259", "U+011F", "v", " ", "e", "t">>,
       <<"i", "p", "t", "a", "l">>,
       <<"U+043D", "U+0435", " ", "U+0445", "U+043E", "U+0447", "U+0443">>,
       <<"d", "o", "n", "'", "t", " ", "w", "a", "n", "t">>,
       <<"i", "s", "t", "U+0259", "m", "i", "r", "U+0259", "m">>,
       <<"i", "s", "t", "e", "m", "i", "y", "o", "r", "u", "m">>,
       <<"U+043E", "U+0442", "U+043A", "U+0430", "U+0436", "U+0443", "U+0441", "U+044C">>,
       <<"r", "e", "f", "u", "s", "e">>,
       <<"i", "m", "t", "i", "n", "a">>,
       <<"-">>,
       <<"U+1F44E">>,
       <<"U+274C">>,
       <<"U+2717">> >>

\* The characters texts are drawn from: Cyrillic de, a, en, ie, te (the
\* words U+0434 U+0430 "yes" and U+043D U+0435 U+0442 "no"), the capital
\* De, the symbols + and -, and the space.
Alphabet == {"U+0434", "U+0430", "U+043D", "U+0435", "U+0442", "U+0414", "+", "-", " "}

Texts == UNION {[1..n -> Alphabet] : n \in 0..MaxLen}

\* str.lower, on the characters of Alphabet.
LowerChar(c) == IF c = "U+0414" THEN "U+0434" ELSE c

Lower(t) == [i \in DOMAIN t |-> LowerChar(t[i])]

\* str.strip: leading and trailing whitespace removed.
RECURSIVE Strip(_)
Strip(t) ==
    IF t = <<>> THEN t
    ELSE IF Head(t) = " " THEN Strip(Tail(t))
    ELSE IF t[Len(t)] = " " THEN Strip(SubSeq(t, 1, Len(t) - 1))
    ELSE t

\* p in t, at 0-based offset i.
OccursAt(t, p, i) == i + Len(p) <= Len(t) /\ SubSeq(t, i + 1, i + Len(p)) = p

\* p in t
Contains(t, p) == \E i \in 0..Len(t) : OccursAt(t, p, i)

\* t.index(p): the offset of the first occurrence.
Index(t, p) == CHOOSE i \in 0..Len(t) : OccursAt(t, p, i) /\ \A j \in 0..(i-1) : ~OccursAt(t, p, j)

\* next(p for p in patterns if p in t): the first pattern of the list that
\* occurs in t.
FirstMatching(patterns, t) ==
    patterns[CHOOSE k \in DOMAIN patterns :
                /\ Contains(t, patterns[k])
                /\ \A j \in 1..(k-1) : ~Contains(t, patterns[j])]

AnyMatches(patterns, t) == \E k \in DOMAIN patterns : Contains(t, patterns[k])

parse_user_response(query) ==
    LET query_lower == Strip(Lower(query))
        is_yes == AnyMatches(yes_patterns, query_lower)
        is_no == AnyMatches(no_patterns, query_lower)
    IN  IF is_yes /\ is_no
        THEN IF Index(query_lower, FirstMatching(yes_patterns, query_lower))
                  < Index(query_lower, FirstMatching(no_patterns, query_lower))
             THEN "yes" ELSE "no"
        ELSE IF is_yes THEN "yes"
        ELSE IF is_no THEN "no"
        ELSE "unclear"

InitParse ==
    /\ store = [s \in Ids |-> NoHash]
    /\ expires = {}
    /\ queue = <<>>
    /\ nextId = 1
    /\ active_connections = [s \in Ids |-> {}]
    /\ steps = 0
    /\ last = [op |-> "init", sid |-> UnknownId, arg |-> "", ret |-> "None", pub |-> <<>>]
    /\ wpc = [w \in Roles |-> "idle"]
    /\ wlocal = [w \in Roles |-> <<>>]
    /\ text \in Texts
    /\ result = "none"
    /\ pending_handoff = [u \in Users |-> <<>>]
    /\ pending_action = [u \in Users |-> <<>>]
    /\ clock = 0
    /\ InitChat
    /\ InitFeedback
    /\ InitPresence
    /\ InitTtl
    /\ InitRequests

ParseUserResponse ==
    /\ result = "none"
    /\ result' = parse_user_response(text)
    /\ UNCHANGED <<store, expires, queue, nextId, active_connections, last, steps,
                   wpc, wlocal, text, pending_handoff, pending_action, clock,
                   chat_vars, feedback_vars, agents, session_deadline, request_vars>>

NextParse == ParseUserResponse

SpecParse == InitParse /\ [][NextParse]_vars

(* ------------------ ConversationState, the pending-action gate --------- *)

\* The two Redis string keys of a user, pending_handoff:{user_id} and
\* pending_action:{user_id}, are pending_handoff[u] and pending_action[u]:
\* NoKey when the key is missing, else the value SETEX stored and the time
\* at which Redis deletes it.  clock is the time, in units of TimeUnit
\* seconds; datetime.now() is clock.

\* set_pending_action's default ttl, in seconds.
ttl == 300

\* The ttl_minutes answer_query passes to create_handoff_confirmation.
ttl_minutes == 10

\* One unit of clock, in seconds.
TimeUnit == ttl

NoKey == <<>>

\* str(uuid.uuid4()), opaque.
ActionId == "uuid"

\* str(uuid.uuid4())[:8]
Tokens == {"tok1", "tok2"}

\* confirmation_token = None
NoToken == "None"

\* The action types oms_client passes to set_pending_action.
ActionTypes == {"cancel_order", "change_address"}

HasKey(entry) == DOMAIN entry # {}

\* SETEX key seconds value
SetEx(now, seconds, value) == [value |-> value, deadline |-> now + (seconds \div TimeUnit)]

\* GET key: the value, or None (NoKey).
Get(entry) == IF HasKey(entry) THEN entry.value ELSE NoKey

\* Mutant: no key ever expires.
ExpireKeys_never(keys, now) == keys

\* Redis deletes the keys whose time to live has run out.
ExpireKeys(keys, now) ==
    [u \in Users |-> IF HasKey(keys[u]) /\ keys[u].deadline <= now THEN NoKey ELSE keys[u]]

state_data_handoff(now, user_id, original_query, contextualized_query, minutes) ==
    [ action_id   |-> ActionId,
      action_type |-> "handoff_confirmation",
      user_id     |-> user_id,
      created_at  |-> now,
      expires_at  |-> now + ((minutes * 60) \div TimeUnit),
      data        |-> [ original_query       |-> original_query,
                        contextualized_query |-> contextualized_query ] ]

\* Mutant: the handoff confirmation is stored under the generic key.
create_handoff_confirmation_generic(ph, pa, now, user_id, original_query, contextualized_query, minutes) ==
    << ph,
       [pa EXCEPT ![user_id] =
           SetEx(now, minutes * 60,
                 json_dumps(state_data_handoff(now, user_id, original_query,
                                               contextualized_query, minutes)))] >>

\* create_handoff_confirmation: <<pending_handoff, pending_action>> after
\* the call.
create_handoff_confirmation(ph, pa, now, user_id, original_query, contextualized_query, minutes) ==
    << [ph EXCEPT ![user_id] =
           SetEx(now, minutes * 60,
                 json_dumps(state_data_handoff(now, user_id, original_query,
                                               contextualized_query, minutes)))],
       pa >>

state_data_action(now, user_id, action_type, action_params, confirmation_token) ==
    [ user_id            |-> user_id,
      action_type        |-> action_type,
      action_params      |-> action_params,
      created_at         |-> now,
      confirmation_token |-> confirmation_token ]

\* set_pending_action: <<pending_handoff, pending_action>> after the call.
set_pending_action(ph, pa, now, user_id, action_type, action_params, confirmation_token) ==
    << ph,
       [pa EXCEPT ![user_id] =
           SetEx(now, ttl,
                 json_dumps(state_data_action(now, user_id, action_type, action_params,
                                              confirmation_token)))] >>

\* Mutant: the generic key is read first.
get_pending_action_generic_first(ph, pa, user_id) ==
    IF HasKey(Get(pa[user_id])) THEN json_loads(Get(pa[user_id]))
    ELSE IF HasKey(Get(ph[user_id])) THEN json_loads(Get(ph[user_id]))
    ELSE NoKey

\* get_pending_action: the handoff key first, then the generic key, else
\* None (NoKey).
get_pending_action(ph, pa, user_id) ==
    IF HasKey(Get(ph[user_id])) THEN json_loads(Get(ph[user_id]))
    ELSE IF HasKey(Get(pa[user_id])) THEN json_loads(Get(pa[user_id]))
    ELSE NoKey

\* Mutant: the token is not compared.
confirm_action_any_token(ph, pa, user_id, confirmation_token) ==
    HasKey(get_pending_action(ph, pa, user_id))

confirm_action(ph, pa, user_id, confirmation_token) ==
    LET pending == get_pending_action(ph, pa, user_id)
    IN  IF ~HasKey(pending) THEN FALSE
        ELSE IF pending.action_type = "handoff_confirmation" THEN TRUE
        ELSE IF confirmation_token # NoToken /\ pending.confirmation_token = confirmation_token
             THEN TRUE
        ELSE FALSE

\* Mutant: only the handoff key is deleted.
clear_pending_action_handoff_only(ph, pa, user_id) ==
    << HasKey(ph[user_id]) \/ HasKey(pa[user_id]), [ph EXCEPT ![user_id] = NoKey], pa >>

\* clear_pending_action: <<deleted, pending_handoff, pending_action>>.
clear_pending_action(ph, pa, user_id) ==
    << HasKey(ph[user_id]) \/ HasKey(pa[user_id]),
       [ph EXCEPT ![user_id] = NoKey],
       [pa EXCEPT ![user_id] = NoKey] >>

handoff_direct_requests ==
    { <<"U+0445", "U+043E", "U+0447", "U+0443", " ", "U+043F", "U+043E", "U+0433", "U+043E", "U+0432", "U+043E", "U+0440", "U+0438", "U+0442", "U+044C", " ", "U+0441", " ", "U+0447", "U+0435", "U+043B", "U+043E", "U+0432", "U+0435", "U+043A", "U+043E", "U+043C">>,
      <<"U+0441", "U+043E", "U+0435", "U+0434", "U+0438", "U+043D", "U+0438", "U+0442", "U+0435", " ", "U+0441", " ", "U+043E", "U+043F", "U+0435", "U+0440", "U+0430", "U+0442", "U+043E", "U+0440", "U+043E", "U+043C">>,
      <<"U+043D", "U+0443", "U+0436", "U+0435", "U+043D", " ", "U+043E", "U+043F", "U+0435", "U+0440", "U+0430", "U+0442", "U+043E", "U+0440">>,
      <<"U+0441", "U+0432", "U+044F", "U+0437", "U+0430", "U+0442", "U+044C", "U+0441", "U+044F", " ", "U+0441", " ", "U+043F", "U+043E", "U+0434", "U+0434", "U+0435", "U+0440", "U+0436", "U+043A", "U+043E", "U+0439">>,
      <<"U+043F", "U+043E", "U+0433", "U+043E", "U+0432", "U+043E", "U+0440", "U+0438", "U+0442", "U+044C", " ", "U+0441", " ", "U+043C", "U+0435", "U+043D", "U+0435", "U+0434", "U+0436", "U+0435", "U+0440", "U+043E", "U+043C">>,
      <<"U+0436", "U+0438", "U+0432", "U+043E", "U+0439", " ", "U+0447", "U+0435", "U+043B", "U+043E", "U+0432", "U+0435", "U+043A">>,
      <<"o", "p", "e", "r", "a", "t", "o", "r">>,
      <<"h", "u", "m", "a", "n">>,
      <<"s", "u", "p", "p", "o", "r", "t">>,
      <<"m", "a", "n", "a", "g", "e", "r">>,
      <<"o", "p", "e", "r", "a", "t", "o", "r", "l", "a", " ", "d", "a", "n", "U+0131", "U+015F">>,
      <<"i", "n", "s", "a", "n", " ", "l", "a", "z", "U+0131", "m">> }

\* A response of the model and a retrieved context are kept by what
\* needs_human_handoff reads of them: whether a phrase of no_info_phrases
\* occurs in the response, and the stripped lengths.
Responses ==
    { [no_info |-> FALSE, length |-> 30],
      [no_info |-> TRUE,  length |-> 30],
      [no_info |-> FALSE, length |-> 29] }

Contexts == { [length |-> 50], [length |-> 49] }

\* Inbound messages: "da" and "net" in Russian, a message that is neither,
\* and a direct request for an operator.
Inbound ==
    { <<"U+0434", "U+0430">>,
      <<"U+043D", "U+0435", "U+0442">>,
      <<"-">>,
      <<"o", "p", "e", "r", "a", "t", "o", "r">> }

\* any(trigger in query_lower for trigger in handoff_direct_requests), and
\* the inbound messages for which it holds (computed once).
has_direct_request(query) ==
    \E trigger \in handoff_direct_requests : Contains(Lower(query), trigger)

InboundDirect == {query \in Inbound : has_direct_request(query)}

needs_human_handoff(response, context, query) ==
    IF query \in InboundDirect THEN "direct"
    ELSE IF context.length < 50 THEN "offer"
    ELSE IF response.no_info THEN "offer"
    ELSE IF response.length < 30 THEN "offer"
    ELSE "False"

\* parse_user_response on the inbound messages (computed once).
InboundReply == [query \in Inbound |-> parse_user_response(query)]

(* ------------------------- answer_query and the gate ------------------- *)

\* Where answer_query returns when no confirmation is pending: before the
\* handoff check (product search, order status, small talk, no documents,
\* cache hit) or after the model's answer.
Routes == {"early", "llm"}

\* The original query of a confirmation created outside answer_query.
OriginalQueries == {<<"-">>}

\* action_params, opaque.
ActionParams == "params"

GateCalled(op, user_id, arg, ret, pub) ==
    /\ steps < MaxCalls
    /\ steps' = steps + 1
    /\ last' = [op |-> op, sid |-> user_id, arg |-> arg, ret |-> ret, pub |-> pub]

GateIdle ==
    UNCHANGED <<active_connections, wpc, wlocal, text, result, clock,
                chat_vars, feedback_vars, agents, session_deadline, request_vars>>

\* The branch answer_query takes: the parsed reply when a handoff
\* confirmation is pending, else the handoff decision ("False" when the
\* call returns before the decision or no handoff is needed).
answer_query_branch(pending, query, route, response, context) ==
    IF HasKey(pending) /\ pending.action_type = "handoff_confirmation"
    THEN InboundReply[query]
    ELSE IF route = "llm" THEN needs_human_handoff(response, context, query)
    ELSE "False"

\* Mutant: the session is created from the query of the current message.
answer_query_session_query_current(pending, branch, contextualized_query) ==
    contextualized_query

\* The query of the session answer_query creates: the stored one on "yes",
\* the current one on "direct".
answer_query_session_query(pending, branch, contextualized_query) ==
    IF branch = "yes" THEN pending.data.contextualized_query ELSE contextualized_query

\* Mutant: a direct request creates nothing.
answer_query_creates_yes_only(branch) == branch = "yes"

\* The branches in which answer_query calls create_session.
answer_query_creates(branch) == branch \in {"yes", "direct"}

\* Mutant: an unclear reply clears the gate.
answer_query_gate_clear_unclear(ph, pa, now, user_id, query, contextualized_query, branch) ==
    IF branch \in {"yes", "no", "unclear"}
    THEN << clear_pending_action(ph, pa, user_id)[2], clear_pending_action(ph, pa, user_id)[3] >>
    ELSE IF branch = "offer"
    THEN create_handoff_confirmation(ph, pa, now, user_id, query, contextualized_query,
                                     ttl_minutes)
    ELSE << ph, pa >>

\* Mutant: an offer stores no confirmation.
answer_query_gate_no_offer(ph, pa, now, user_id, query, contextualized_query, branch) ==
    IF branch \in {"yes", "no"}
    THEN << clear_pending_action(ph, pa, user_id)[2], clear_pending_action(ph, pa, user_id)[3] >>
    ELSE << ph, pa >>

\* What answer_query does to the gate, <<pending_handoff, pending_action>>:
\* cleared on "yes" and "no", opened on "offer", else left alone.
answer_query_gate(ph, pa, now, user_id, query, contextualized_query, branch) ==
    IF branch \in {"yes", "no"}
    THEN << clear_pending_action(ph, pa, user_id)[2], clear_pending_action(ph, pa, user_id)[3] >>
    ELSE IF branch = "offer"
    THEN create_handoff_confirmation(ph, pa, now, user_id, query, contextualized_query,
                                     ttl_minutes)
    ELSE << ph, pa >>

\* answer_query once its branch is known.
answer_query_effects(user_id, query, contextualized_query, pending, branch) ==
    LET session_id == nextId
        data == session_data(session_id,
                             answer_query_session_query(pending, branch, contextualized_query))
        gate == answer_query_gate(pending_handoff, pending_action, clock, user_id,
                                  query, contextualized_query, branch)
    IN  /\ IF answer_query_creates(branch)
           THEN /\ nextId <= MaxSessions
                /\ store' = [store EXCEPT ![session_id] = HSet(@, data)]
                /\ queue' = enqueue(queue, session_id, data.priority)
                /\ expires' = expires \cup {session_id}
                /\ nextId' = nextId + 1
                /\ GateCalled("answer_query", user_id, query, branch,
                              <<_notify_operators(session_id, data)>>)
           ELSE /\ UNCHANGED <<store, queue, expires, nextId>>
                /\ GateCalled("answer_query", user_id, query, branch, <<>>)
        /\ pending_handoff' = gate[1]
        /\ pending_action' = gate[2]
        /\ GateIdle

\* The route, the response and the context change nothing but the branch.
AnswerQuery(user_id, query, contextualized_query) ==
    /\ steps < MaxCalls
    /\ \E pending \in {get_pending_action(pending_handoff, pending_action, user_id)} :
       \E branch \in {answer_query_branch(pending, query, route, response, context) :
                         route \in Routes, response \in Responses, context \in Contexts} :
          answer_query_effects(user_id, query, contextualized_query, pending, branch)

CreateHandoffConfirmation(user_id, original_query, contextualized_query) ==
    LET r == create_handoff_confirmation(pending_handoff, pending_action, clock, user_id,
                                         original_query, contextualized_query, ttl_minutes)
    IN  /\ pending_handoff' = r[1]
        /\ pending_action' = r[2]
        /\ GateCalled("create_handoff_confirmation", user_id, original_query, ActionId, <<>>)
        /\ UNCHANGED <<store, queue, expires, nextId>>
        /\ GateIdle

SetPendingAction(user_id, action_type, confirmation_token) ==
    LET r == set_pending_action(pending_handoff, pending_action, clock, user_id,
                                action_type, ActionParams, confirmation_token)
    IN  /\ pending_handoff' = r[1]
        /\ pending_action' = r[2]
        /\ GateCalled("set_pending_action", user_id, action_type, confirmation_token, <<>>)
        /\ UNCHANGED <<store, queue, expires, nextId>>
        /\ GateIdle

GetPendingAction(user_id) ==
    /\ GateCalled("get_pending_action", user_id, "",
                  get_pending_action(pending_handoff, pending_action, user_id), <<>>)
    /\ UNCHANGED <<store, queue, expires, nextId, pending_handoff, pending_action>>
    /\ GateIdle

ConfirmAction(user_id, confirmation_token) ==
    /\ GateCalled("confirm_action", user_id, confirmation_token,
                  confirm_action(pending_handoff, pending_action, user_id, confirmation_token),
                  <<>>)
    /\ UNCHANGED <<store, queue, expires, nextId, pending_handoff, pending_action>>
    /\ GateIdle

ClearPendingAction(user_id) ==
    LET r == clear_pending_action(pending_handoff, pending_action, user_id)
    IN  /\ pending_handoff' = r[2]
        /\ pending_action' = r[3]
        /\ GateCalled("clear_pending_action", user_id, "", r[1], <<>>)
        /\ UNCHANGED <<store, queue, expires, nextId>>
        /\ GateIdle

\* TimeUnit seconds pass: Redis deletes the keys whose time to live is over.
Tick ==
    /\ clock < MaxTime
    /\ clock' = clock + 1
    /\ pending_handoff' = ExpireKeys(pending_handoff, clock')
    /\ pending_action' = ExpireKeys(pending_action, clock')
    /\ UNCHANGED <<store, queue, expires, nextId, active_connections, last, steps,
                   wpc, wlocal, text, result,
                   chat_vars, feedback_vars, agents, session_deadline, request_vars>>

NextGate ==
    \/ \E user_id \in Users, query \in Inbound, contextualized_query \in Queries :
          AnswerQuery(user_id, query, contextualized_query)
    \/ \E user_id \in Users, original_query \in OriginalQueries, contextualized_query \in Queries :
          CreateHandoffConfirmation(user_id, original_query, contextualized_query)
    \/ \E user_id \in Users, action_type \in ActionTypes, confirmation_token \in Tokens :
          SetPendingAction(user_id, action_type, confirmation_token)
    \/ \E user_id \in Users : GetPendingAction(user_id)
    \/ \E user_id \in Users, confirmation_token \in Tokens \cup {NoToken} :
          ConfirmAction(user_id, confirmation_token)
    \/ \E user_id \in Users : ClearPendingAction(user_id)
    \/ Tick

SpecGate == Init /\ [][NextGate]_vars

(* ----------------------- SupportHandoff, presence --------------------- *)

\* EXPIRE agents_key 300: the time to live of the whole agents hash, seconds.
presence_ttl == 300

\* Seconds in one tick of the presence clock: half the presence window.
PresenceUnit == presence_ttl \div 2

HDel(h, f) == [g \in (DOMAIN h) \ {f} |-> h[g]]

\* mark_agent_online: HSET agents_key agent_id {...}, then EXPIRE on the
\* whole key.
mark_agent_online(ag, now, agent_id, agent_name) ==
    [ hash     |-> HSet(ag.hash, agent_id :> json_dumps([ name      |-> agent_name,
                                                          status    |-> "online",
                                                          last_seen |-> now ])),
      deadline |-> now + (presence_ttl \div PresenceUnit) ]

\* mark_agent_offline: HDEL agents_key agent_id.
mark_agent_offline(ag, agent_id) ==
    IF agent_id \notin DOMAIN ag.hash THEN ag
    ELSE IF DOMAIN ag.hash = {agent_id} THEN [hash |-> NoHash, deadline |-> 0]
    ELSE [ag EXCEPT !.hash = HDel(@, agent_id)]

\* get_online_agents: HGETALL, as the set of agent ids returned.
get_online_agents(ag) == DOMAIN ag.hash

\* The time to live of the agents key runs out: the whole hash is deleted.
ExpireAgents(ag, now) ==
    IF ag.hash # NoHash /\ now >= ag.deadline THEN [hash |-> NoHash, deadline |-> 0]
    ELSE ag

PresenceIdle ==
    UNCHANGED <<store, expires, queue, nextId, active_connections, wpc, wlocal,
                text, result, pending_handoff, pending_action,
                chat_vars, feedback_vars, session_deadline, request_vars>>

\* A heartbeat of agent_id.
MarkAgentOnline(agent_id) ==
    /\ agents' = mark_agent_online(agents, clock, agent_id, AgentName(agent_id))
    /\ Called("mark_agent_online", UnknownId, agent_id, "None", <<>>)
    /\ UNCHANGED clock
    /\ PresenceIdle

MarkAgentOffline(agent_id) ==
    /\ agents' = mark_agent_offline(agents, agent_id)
    /\ Called("mark_agent_offline", UnknownId, agent_id, "None", <<>>)
    /\ UNCHANGED clock
    /\ PresenceIdle

GetOnlineAgents ==
    /\ Called("get_online_agents", UnknownId, "", get_online_agents(agents), <<>>)
    /\ UNCHANGED <<agents, clock>>
    /\ PresenceIdle

\* PresenceUnit seconds pass.
PresenceTick ==
    /\ clock < MaxTime
    /\ clock' = clock + 1
    /\ agents' = ExpireAgents(agents, clock')
    /\ UNCHANGED <<last, steps>>
    /\ PresenceIdle

NextPresence ==
    \/ \E agent_id \in Agents : MarkAgentOnline(agent_id)
    \/ \E agent_id \in Agents : MarkAgentOffline(agent_id)
    \/ GetOnlineAgents
    \/ PresenceTick

SpecPresence == Init /\ [][NextPresence]_vars

(* --------------------- ConnectionManager, the sockets ------------------ *)

\* The events the server sends over a socket.
Event(type, role, content, agent_id, messages) ==
    [ type |-> type, role |-> role, content |-> content,
      agent_id |-> agent_id, messages |-> messages ]

\* The keys of active_connections[s], from the sockets registered.
RolesOf(ch, s) == {role \in Roles : ch[s][role] # NoSocket}

\* Mutant: every event is written to the socket twice.
send_json_twice(hs, ib, w, event) ==
    IF hs[w].state = "running" THEN [ib EXCEPT ![w] = Append(Append(@, event), event)]
    ELSE ib

\* websocket.send_json: the event reaches the peer when its connection is
\* still open; on a closed connection it raises.
send_json(hs, ib, w, event) ==
    IF hs[w].state = "running" THEN [ib EXCEPT ![w] = Append(@, event)] ELSE ib

\* Mutant: with no user registered the event goes to the agent's socket.
send_to_user_fallback(ch, hs, ib, s, event) ==
    IF ch[s]["user"] # NoSocket THEN send_json(hs, ib, ch[s]["user"], event)
    ELSE IF ch[s]["agent"] # NoSocket THEN send_json(hs, ib, ch[s]["agent"], event)
    ELSE ib

\* send_to_user: send_json on the registered user socket, errors swallowed.
send_to_user(ch, hs, ib, s, event) ==
    IF ch[s]["user"] # NoSocket THEN send_json(hs, ib, ch[s]["user"], event) ELSE ib

\* Mutant: with no agent registered the event goes to the user's socket.
send_to_agent_fallback(ch, hs, ib, s, event) ==
    IF ch[s]["agent"] # NoSocket THEN send_json(hs, ib, ch[s]["agent"], event)
    ELSE IF ch[s]["user"] # NoSocket THEN send_json(hs, ib, ch[s]["user"], event)
    ELSE ib

\* send_to_agent: send_json on the registered agent socket, errors swallowed.
send_to_agent(ch, hs, ib, s, event) ==
    IF ch[s]["agent"] # NoSocket THEN send_json(hs, ib, ch[s]["agent"], event) ELSE ib

is_agent_connected(ch, s) == ch[s]["agent"] # NoSocket

is_user_connected(ch, s) == ch[s]["user"] # NoSocket

\* Mutant: the entry of the role is removed whichever socket holds it.
disconnect_by_role(ch, w2s, w, role) ==
    IF w2s[w] = NoSession THEN <<ch, w2s>>
    ELSE <<[ch EXCEPT ![w2s[w]][role] = NoSocket], [w2s EXCEPT ![w] = NoSession]>>

\* disconnect: the socket leaves the registry when it is the one registered
\* for its session, and leaves ws_to_session.
disconnect(ch, w2s, w, role) ==
    IF w2s[w] = NoSession THEN <<ch, w2s>>
    ELSE LET session_id == w2s[w]
         IN  << IF ch[session_id]["user"] = w
                THEN [ch EXCEPT ![session_id]["user"] = NoSocket]
                ELSE IF ch[session_id]["agent"] = w
                     THEN [ch EXCEPT ![session_id]["agent"] = NoSocket]
                     ELSE ch,
                [w2s EXCEPT ![w] = NoSession] >>

\* connect_user / connect_agent, the registry part.
register(ch, s, role, w) == [ch EXCEPT ![s][role] = w]

AgentJoined(agent_id) == Event("agent_joined", "", <<>>, agent_id, <<>>)

History(messages) == Event("history", "", <<>>, "", messages)

MessageEvent(role, content, agent_id) == Event("message", role, content, agent_id, <<>>)

AutoReply(queue_position) == Event("system", "", <<queue_position>>, "", <<>>)

Typing == Event("typing", "", <<>>, "", <<>>)

ChatClosed == Event("chat_closed", "", <<>>, "", <<>>)

UserDisconnected == Event("user_disconnected", "", <<>>, "", <<>>)

AgentDisconnected == Event("agent_disconnected", "", <<>>, "", <<>>)

(* ------------------ the WebSocket handlers, one step each -------------- *)

\* The frames a client sends: text that json.loads rejects, or an object.
Malformed == [parses |-> FALSE, type |-> "", content |-> <<>>, resolution |-> ""]

Frame(type, content, resolution) ==
    [parses |-> TRUE, type |-> type, content |-> content, resolution |-> resolution]

FrameContents == {<<"hello">>, <<" ", "hello", " ">>, <<" ">>}

UserFrames == {Malformed} \cup {Frame("message", c, "") : c \in FrameContents}

AgentFrames ==
    {Malformed, Frame("typing", <<>>, ""), Frame("close", <<>>, "resolved"),
     Frame("ping", <<>>, "")}
        \cup {Frame("message", c, "") : c \in FrameContents}

\* The socket the next accepted connection gets.
FreeSockets == {w \in Sockets : handlers[w].state = "free"}

NewSocket == CHOOSE w \in FreeSockets : \A v \in FreeSockets : w <= v

Running(w, role) == handlers[w].state = "running" /\ handlers[w].role = role

Ended(w) == [handlers EXCEPT ![w].state = "ended"]

\* One step of a handler, within the budget of the WebSocket section.
ChatCalled(op, s, arg, ret, pub) ==
    /\ steps < MaxChatSteps
    /\ steps' = steps + 1
    /\ last' = [op |-> op, sid |-> s, arg |-> arg, ret |-> ret, pub |-> pub]

ChatIdle ==
    UNCHANGED <<expires, nextId, wpc, wlocal, text, result,
                pending_handoff, pending_action, clock, feedback_vars,
                session_deadline, request_vars>>

\* user_websocket up to the receive loop: close(4004) when the session is
\* missing, connect_user otherwise.
UserWebsocket(s) ==
    /\ FreeSockets # {}
    /\ LET w == NewSocket
       IN  IF get_session(store, s) = NoHash
           THEN /\ handlers' = [handlers EXCEPT ![w] =
                       [state |-> "ended", sid |-> s, role |-> "user", agent_id |-> ""]]
                /\ ChatCalled("user_websocket", s, w, "4004", <<>>)
                /\ UNCHANGED <<store, queue, active_connections, channel,
                               ws_to_session, inbox, agents>>
           ELSE /\ channel' = register(channel, s, "user", w)
                /\ active_connections' =
                       [active_connections EXCEPT ![s] = RolesOf(channel', s)]
                /\ ws_to_session' = [ws_to_session EXCEPT ![w] = s]
                /\ store' = connect_user(store, active_connections', s)
                /\ handlers' = [handlers EXCEPT ![w] =
                       [state |-> "running", sid |-> s, role |-> "user", agent_id |-> ""]]
                /\ ChatCalled("user_websocket", s, w, "accepted", <<>>)
                /\ UNCHANGED <<queue, inbox, agents>>
    /\ ChatIdle

\* agent_websocket up to the receive loop: close(4004) when the session is
\* missing; otherwise connect_agent (assign, activate and agent_joined when
\* the user is registered, history to the agent) and mark_agent_online.
AgentWebsocket(s, agent_id) ==
    /\ FreeSockets # {}
    /\ LET w == NewSocket
       IN  IF get_session(store, s) = NoHash
           THEN /\ handlers' = [handlers EXCEPT ![w] =
                       [state |-> "ended", sid |-> s, role |-> "agent", agent_id |-> agent_id]]
                /\ ChatCalled("agent_websocket", s, w, "4004", <<>>)
                /\ UNCHANGED <<store, queue, active_connections, channel,
                               ws_to_session, inbox, agents>>
           ELSE /\ channel' = register(channel, s, "agent", w)
                /\ active_connections' =
                       [active_connections EXCEPT ![s] = RolesOf(channel', s)]
                /\ ws_to_session' = [ws_to_session EXCEPT ![w] = s]
                /\ store' = connect_agent(store, active_connections', s,
                                          agent_id, AgentName(agent_id))
                /\ queue' = assign_agent_queue(store, queue, s)
                /\ handlers' = [handlers EXCEPT ![w] =
                       [state |-> "running", sid |-> s, role |-> "agent", agent_id |-> agent_id]]
                /\ LET joined == IF is_user_connected(channel', s)
                                 THEN send_to_user(channel', handlers', inbox, s,
                                                   AgentJoined(agent_id))
                                 ELSE inbox
                       session == get_session(store', s)
                   IN  inbox' = IF session # NoHash /\ "messages" \in DOMAIN session
                                   /\ session["messages"] # <<>>
                                THEN send_json(handlers', joined, w,
                                               History(session["messages"]))
                                ELSE joined
                /\ agents' = mark_agent_online(agents, clock, agent_id, AgentName(agent_id))
                /\ ChatCalled("agent_websocket", s, w, "accepted", <<>>)
    /\ ChatIdle

\* The except Exception path of both handlers: manager.disconnect, and for
\* an agent mark_agent_offline; nothing is sent.
HandlerError(w, op, frame) ==
    LET s == handlers[w].sid
        d == disconnect(channel, ws_to_session, w, handlers[w].role)
    IN  /\ channel' = d[1]
        /\ ws_to_session' = d[2]
        /\ active_connections' = [active_connections EXCEPT ![s] = RolesOf(channel', s)]
        /\ handlers' = Ended(w)
        /\ agents' = IF handlers[w].role = "agent"
                     THEN mark_agent_offline(agents, handlers[w].agent_id)
                     ELSE agents
        /\ ChatCalled(op, s, frame, "error", <<>>)
        /\ UNCHANGED <<store, queue, inbox>>

\* One turn of the user's receive loop.
UserReceive(w, frame) ==
    /\ Running(w, "user")
    /\ LET s == handlers[w].sid
           content == Strip(frame.content)
       IN  IF ~frame.parses THEN HandlerError(w, "user_frame", frame)
           ELSE IF content = <<>>
           THEN /\ ChatCalled("user_frame", s, frame, "continue", <<>>)
                /\ UNCHANGED <<store, queue, active_connections, chat_vars, agents>>
           ELSE /\ store' = add_message(store, s, "user", content, "")
                /\ LET sent == send_to_agent(channel, handlers, inbox, s,
                                             MessageEvent("user", content, ""))
                       queue_position == get_queue_position(queue, s)
                   IN  inbox' = IF ~is_agent_connected(channel, s) /\ queue_position # 0
                                THEN send_json(handlers, sent, w, AutoReply(queue_position))
                                ELSE sent
                /\ ChatCalled("user_frame", s, frame, "message",
                          <<add_message_publish(s, Message("user", content, ""))>>)
                /\ UNCHANGED <<queue, active_connections, channel, ws_to_session,
                               handlers, agents>>
    /\ ChatIdle

\* Mutant: a user who disconnects closes the session.
user_websocket_disconnected_closing(st, q, ch, w2s, hs, ib, w) ==
    LET s == hs[w].sid
        d == disconnect(ch, w2s, w, "user")
    IN  [ store |-> close_session(st, s, "disconnected", NoRating),
          queue |-> close_session_queue(q, s),
          channel |-> d[1], ws_to_session |-> d[2],
          handlers |-> [hs EXCEPT ![w].state = "ended"],
          inbox |-> send_to_agent(d[1], [hs EXCEPT ![w].state = "ended"], ib, s,
                                  UserDisconnected) ]

\* user_websocket, except WebSocketDisconnect: manager.disconnect, then
\* user_disconnected to the agent.
user_websocket_disconnected(st, q, ch, w2s, hs, ib, w) ==
    LET s == hs[w].sid
        d == disconnect(ch, w2s, w, "user")
    IN  [ store |-> st, queue |-> q,
          channel |-> d[1], ws_to_session |-> d[2],
          handlers |-> [hs EXCEPT ![w].state = "ended"],
          inbox |-> send_to_agent(d[1], [hs EXCEPT ![w].state = "ended"], ib, s,
                                  UserDisconnected) ]

\* The user's receive raises WebSocketDisconnect.
UserDisconnect(w) ==
    /\ Running(w, "user")
    /\ LET s == handlers[w].sid
           after == user_websocket_disconnected(store, queue, channel, ws_to_session,
                                                handlers, inbox, w)
       IN  /\ store' = after.store
           /\ queue' = after.queue
           /\ channel' = after.channel
           /\ ws_to_session' = after.ws_to_session
           /\ active_connections' = [active_connections EXCEPT ![s] = RolesOf(channel', s)]
           /\ handlers' = after.handlers
           /\ inbox' = after.inbox
           /\ ChatCalled("user_disconnect", s, w, "None", <<>>)
           /\ UNCHANGED agents
    /\ ChatIdle

\* One turn of the agent's receive loop.
AgentReceive(w, frame) ==
    /\ Running(w, "agent")
    /\ LET s == handlers[w].sid
           agent_id == handlers[w].agent_id
           content == Strip(frame.content)
       IN  IF ~frame.parses THEN HandlerError(w, "agent_frame", frame)
           ELSE IF frame.type = "message" /\ content = <<>>
           THEN /\ ChatCalled("agent_frame", s, frame, "continue", <<>>)
                /\ UNCHANGED <<store, queue, active_connections, chat_vars, agents>>
           ELSE IF frame.type = "message"
           THEN /\ store' = add_message(store, s, "agent", content, "agent")
                /\ inbox' = send_to_user(channel, handlers, inbox, s,
                                         MessageEvent("agent", content, agent_id))
                /\ ChatCalled("agent_frame", s, frame, "message",
                          <<add_message_publish(s, Message("agent", content, "agent"))>>)
                /\ UNCHANGED <<queue, active_connections, channel, ws_to_session,
                               handlers, agents>>
           ELSE IF frame.type = "typing"
           THEN /\ inbox' = send_to_user(channel, handlers, inbox, s, Typing)
                /\ ChatCalled("agent_frame", s, frame, "typing", <<>>)
                /\ UNCHANGED <<store, queue, active_connections, channel,
                               ws_to_session, handlers, agents>>
           ELSE IF frame.type = "close"
           THEN /\ store' = close_session(store, s, frame.resolution, NoRating)
                /\ queue' = close_session_queue(queue, s)
                /\ inbox' = send_to_user(channel, handlers, inbox, s, ChatClosed)
                /\ handlers' = Ended(w)
                /\ ChatCalled("agent_frame", s, frame, "close",
                          <<add_message_publish(s, Message("system", ChatEnded, ""))>>)
                /\ UNCHANGED <<active_connections, channel, ws_to_session, agents>>
           ELSE /\ ChatCalled("agent_frame", s, frame, "continue", <<>>)
                /\ UNCHANGED <<store, queue, active_connections, chat_vars, agents>>
    /\ ChatIdle

\* agent_websocket, except WebSocketDisconnect: manager.disconnect,
\* mark_agent_offline, then agent_disconnected to the user.
agent_websocket_disconnected(st, q, ch, w2s, hs, ib, ag, w) ==
    LET s == hs[w].sid
        d == disconnect(ch, w2s, w, "agent")
    IN  [ store |-> st, queue |-> q,
          channel |-> d[1], ws_to_session |-> d[2],
          handlers |-> [hs EXCEPT ![w].state = "ended"],
          agents |-> mark_agent_offline(ag, hs[w].agent_id),
          inbox |-> send_to_user(d[1], [hs EXCEPT ![w].state = "ended"], ib, s,
                                 AgentDisconnected) ]

\* The agent's receive raises WebSocketDisconnect.
AgentDisconnect(w) ==
    /\ Running(w, "agent")
    /\ LET s == handlers[w].sid
           after == agent_websocket_disconnected(store, queue, channel, ws_to_session,
                                                 handlers, inbox, agents, w)
       IN  /\ store' = after.store
           /\ queue' = after.queue
           /\ channel' = after.channel
           /\ ws_to_session' = after.ws_to_session
           /\ active_connections' = [active_connections EXCEPT ![s] = RolesOf(channel', s)]
           /\ handlers' = after.handlers
           /\ agents' = after.agents
           /\ inbox' = after.inbox
           /\ ChatCalled("agent_disconnect", s, w, "None", <<>>)
    /\ ChatIdle

NextChat ==
    \/ \E query \in Queries : CreateSession(query)
    \/ \E s \in Known : UserWebsocket(s)
    \/ \E s \in Known, agent_id \in Agents : AgentWebsocket(s, agent_id)
    \/ \E w \in Sockets, frame \in UserFrames : UserReceive(w, frame)
    \/ \E w \in Sockets : UserDisconnect(w)
    \/ \E w \in Sockets, frame \in AgentFrames : AgentReceive(w, frame)
    \/ \E w \in Sockets : AgentDisconnect(w)
    \/ \E s \in SessionIds : Expire(s)

SpecChat == Init /\ [][NextChat]_vars

(* ----------------------------- FeedbackManager ------------------------- *)

Ratings == {"yes", "no", "maybe"}

AiResponse == <<"answer">>

\* The ids uuid4 has not produced yet: never pending, never in the file.
UnusedFeedbackIds ==
    {f \in FeedbackIds :
        /\ pending_feedback[f] = NoHash
        /\ \A i \in DOMAIN feedback_file : feedback_file[i].feedback_id # f}

pending_record(feedback_id, user_id, original_query, ai_response) ==
    [ feedback_id    |-> feedback_id,
      user_id        |-> user_id,
      original_query |-> original_query,
      ai_response    |-> ai_response,
      created_at     |-> Now ]

\* create_pending_feedback: the record is stored under a new feedback_id.
create_pending_feedback(pf, feedback_id, user_id, original_query, ai_response) ==
    [pf EXCEPT ![feedback_id] =
        pending_record(feedback_id, user_id, original_query, ai_response)]

FeedbackRecord(pending, rating) ==
    [ feedback_id    |-> pending.feedback_id,
      user_id        |-> pending.user_id,
      original_query |-> pending.original_query,
      ai_response    |-> pending.ai_response,
      rating         |-> rating,
      created_at     |-> pending.created_at ]

\* Mutant: the pending record is kept after the rating is written.
submit_feedback_keep_pending(pf, ff, feedback_id, rating) ==
    IF pf[feedback_id] = NoHash THEN <<FALSE, pf, ff>>
    ELSE <<TRUE, pf, Append(ff, FeedbackRecord(pf[feedback_id], rating))>>

\* FeedbackManager.submit_feedback: <<returned, pending_feedback, file>>.
submit_feedback(pf, ff, feedback_id, rating) ==
    IF pf[feedback_id] = NoHash THEN <<FALSE, pf, ff>>
    ELSE <<TRUE,
           [pf EXCEPT ![feedback_id] = NoHash],
           Append(ff, FeedbackRecord(pf[feedback_id], rating))>>

FeedbackIdle ==
    UNCHANGED <<active_connections, wpc, wlocal, text, result,
                pending_handoff, pending_action, clock, chat_vars, agents,
                session_deadline, request_vars>>

\* answer_query storing the answer it returns for a later rating.
CreatePendingFeedback(user_id, original_query) ==
    /\ UnusedFeedbackIds # {}
    /\ LET feedback_id == CHOOSE f \in UnusedFeedbackIds :
                              \A g \in UnusedFeedbackIds : f <= g
       IN  /\ pending_feedback' = create_pending_feedback(pending_feedback, feedback_id,
                                      user_id, original_query, AiResponse)
           /\ Called("create_pending_feedback", feedback_id, user_id, feedback_id, <<>>)
    /\ UNCHANGED <<store, expires, queue, nextId, feedback_file>>
    /\ FeedbackIdle

\* POST /api/feedback/submit of the application: 400 for a rating that is
\* not yes or no, 404 when nothing is pending under the id, otherwise
\* submit_feedback and, for "no", create_session from the stored pair.
SubmitFeedback(feedback_id, rating) ==
    LET pending == pending_feedback[feedback_id]
        r == submit_feedback(pending_feedback, feedback_file, feedback_id, rating)
        session_id == nextId
        data == session_data(session_id, pending.original_query)
    IN  /\ IF rating \notin {"yes", "no"}
           THEN /\ Called("submit_feedback", feedback_id, rating, "400", <<>>)
                /\ UNCHANGED <<store, expires, queue, nextId, feedback_vars>>
           ELSE IF pending = NoHash
           THEN /\ Called("submit_feedback", feedback_id, rating, "404", <<>>)
                /\ UNCHANGED <<store, expires, queue, nextId, feedback_vars>>
           ELSE IF ~r[1]
           THEN /\ Called("submit_feedback", feedback_id, rating, "500", <<>>)
                /\ UNCHANGED <<store, expires, queue, nextId, feedback_vars>>
           ELSE /\ pending_feedback' = r[2]
                /\ feedback_file' = r[3]
                /\ IF rating = "no"
                   THEN /\ nextId <= MaxSessions
                        /\ store' = [store EXCEPT ![session_id] = HSet(@, data)]
                        /\ queue' = enqueue(queue, session_id, data.priority)
                        /\ expires' = expires \cup {session_id}
                        /\ nextId' = nextId + 1
                        /\ Called("submit_feedback", feedback_id, rating, "200",
                                  <<_notify_operators(session_id, data)>>)
                   ELSE /\ Called("submit_feedback", feedback_id, rating, "200", <<>>)
                        /\ UNCHANGED <<store, expires, queue, nextId>>
        /\ FeedbackIdle

\* POST /submit of the feedback router: submit_feedback, 404 when it
\* returns False; no session is created.
SubmitFeedbackRouter(feedback_id, rating) ==
    LET r == submit_feedback(pending_feedback, feedback_file, feedback_id, rating)
    IN  /\ pending_feedback' = r[2]
        /\ feedback_file' = r[3]
        /\ Called("router_submit", feedback_id, rating,
                  IF r[1] THEN "200" ELSE "404", <<>>)
        /\ UNCHANGED <<store, expires, queue, nextId>>
        /\ FeedbackIdle

NextFeedback ==
    \/ \E user_id \in Users, original_query \in Queries :
           CreatePendingFeedback(user_id, original_query)
    \/ \E feedback_id \in FeedbackIds, rating \in Ratings :
           SubmitFeedback(feedback_id, rating)
    \/ \E feedback_id \in FeedbackIds, rating \in {"yes", "no"} :
           SubmitFeedbackRouter(feedback_id, rating)

SpecFeedback == Init /\ [][NextFeedback]_vars

(* --------------------- SupportHandoff, the session TTL ----------------- *)

\* EXPIRE session_key 10800: the time to live of a session key, seconds.
session_ttl == 10800

\* Seconds in one tick of the clock of this section: half the window.
SessionUnit == session_ttl \div 2

\* redis_client.expire(session_key, 10800) at time now.
expire(dl, s, now) == [dl EXCEPT ![s] = now + (session_ttl \div SessionUnit)]

\* The keys whose time to live has run out at time now.
Expired(ex, dl, now) == {s \in ex : dl[s] <= now}

TtlIdle ==
    UNCHANGED <<active_connections, wpc, wlocal, text, result,
                pending_handoff, pending_action, chat_vars, feedback_vars, agents,
                request_vars>>

\* create_session: HSET, LPUSH / RPUSH, EXPIRE, publish.
TimedCreateSession(query) ==
    LET session_id == nextId
        data == session_data(session_id, query)
    IN  /\ nextId <= MaxSessions
        /\ store' = [store EXCEPT ![session_id] = HSet(@, data)]
        /\ queue' = enqueue(queue, session_id, data.priority)
        /\ expires' = expires \cup {session_id}
        /\ session_deadline' = expire(session_deadline, session_id, clock)
        /\ nextId' = nextId + 1
        /\ Called("create_session", session_id, query, session_id,
                  <<_notify_operators(session_id, data)>>)
        /\ UNCHANGED clock
        /\ TtlIdle

\* assign_agent: EXISTS, HSET, LREM; the time to live is not touched.
TimedAssignAgent(s, agent_id) ==
    LET r == assign_agent(store, s, agent_id, AgentName(agent_id))
    IN  /\ store' = r[2]
        /\ queue' = assign_agent_queue(store, queue, s)
        /\ Called("assign_agent", s, agent_id, r[1], <<>>)
        /\ UNCHANGED <<expires, session_deadline, nextId, clock>>
        /\ TtlIdle

\* activate_session: HSET status; the time to live is not touched.
TimedActivateSession(s) ==
    /\ store' = activate_session(store, s)
    /\ Called("activate_session", s, "", "None", <<>>)
    /\ UNCHANGED <<expires, session_deadline, queue, nextId, clock>>
    /\ TtlIdle

\* add_message: HGET, HSET, publish; the time to live is not touched.
TimedAddMessage(s, role, content) ==
    LET metadata == IF role = "agent" THEN "agent" ELSE ""
    IN  /\ store' = add_message(store, s, role, content, metadata)
        /\ Called("add_message", s, role, "None",
                  <<add_message_publish(s, Message(role, content, metadata))>>)
        /\ UNCHANGED <<expires, session_deadline, queue, nextId, clock>>
        /\ TtlIdle

\* close_session: HSET, add_message, LREM; the time to live is not touched.
TimedCloseSession(s, resolution) ==
    /\ store' = close_session(store, s, resolution, NoRating)
    /\ queue' = close_session_queue(queue, s)
    /\ Called("close_session", s, resolution, "None",
              <<add_message_publish(s, Message("system", ChatEnded, ""))>>)
    /\ UNCHANGED <<expires, session_deadline, nextId, clock>>
    /\ TtlIdle

\* SessionUnit seconds pass; Redis deletes the keys whose time has run out.
\* The queue list is another key and keeps the ids.
TtlTick ==
    /\ clock < MaxTime
    /\ clock' = clock + 1
    /\ LET gone == Expired(expires, session_deadline, clock')
       IN  /\ store' = [s \in Ids |-> IF s \in gone THEN NoHash ELSE store[s]]
           /\ expires' = expires \ gone
           /\ session_deadline' = [s \in Ids |-> IF s \in gone THEN 0
                                                 ELSE session_deadline[s]]
    /\ UNCHANGED <<queue, nextId, last, steps>>
    /\ TtlIdle

NextTtl ==
    \/ \E query \in Queries : TimedCreateSession(query)
    \/ \E s \in Known, agent_id \in Agents : TimedAssignAgent(s, agent_id)
    \/ \E s \in Known : TimedActivateSession(s)
    \/ \E s \in Known, role \in Roles, content \in Contents :
           TimedAddMessage(s, role, content)
    \/ \E s \in Known, resolution \in Resolutions : TimedCloseSession(s, resolution)
    \/ TtlTick

SpecTtl == Init /\ [][NextTtl]_vars

(* ---------------- answer_query, one ConversationState call at a time ---- *)

\* Two answer_query calls run side by side.  Each call of a method of
\* ConversationState or SupportHandoff is one step; nothing holds the
\* confirmation between get_pending_action and clear_pending_action.

RequestIdle ==
    UNCHANGED <<active_connections, wpc, wlocal, text, result, clock,
                chat_vars, feedback_vars, agents, session_deadline>>

\* The confirmation offered to the user before the two calls start.
OfferMade(user_id, original_query, contextualized_query) ==
    /\ steps = 0
    /\ CreateHandoffConfirmation(user_id, original_query, contextualized_query)
    /\ UNCHANGED request_vars

\* answer_query up to its branch: get_pending_action, parse_user_response
\* or the handoff decision.
RequestGet(t, user_id, query, contextualized_query) ==
    /\ qpc[t] = "idle"
    /\ steps < MaxCalls
    /\ steps' = steps + 1
    /\ \E pending \in {get_pending_action(pending_handoff, pending_action, user_id)} :
       \E branch \in {answer_query_branch(pending, query, route, response, context) :
                         route \in Routes, response \in Responses, context \in Contexts} :
          /\ qlocal' = [qlocal EXCEPT ![t] =
                          [ user_id              |-> user_id,
                            query                |-> query,
                            contextualized_query |-> contextualized_query,
                            pending              |-> pending,
                            branch               |-> branch,
                            session_handoff_id   |-> 0 ]]
          /\ qpc' = [qpc EXCEPT ![t] =
                        IF answer_query_creates(branch) THEN "create"
                        ELSE IF branch = "no" THEN "clear"
                        ELSE IF branch = "offer" THEN "offer"
                        ELSE "idle"]
          /\ last' = IF branch \in {"unclear", "False"}
                     THEN [op |-> "answer_query", sid |-> user_id, arg |-> query,
                           ret |-> branch, pub |-> <<>>]
                     ELSE last
    /\ UNCHANGED <<store, queue, expires, nextId, pending_handoff, pending_action>>
    /\ RequestIdle

\* answer_query on "yes" and on a direct request: handoff.create_session.
RequestCreate(t) ==
    LET l == qlocal[t]
        session_id == nextId
        data == session_data(session_id,
                    answer_query_session_query(l.pending, l.branch, l.contextualized_query))
    IN  /\ qpc[t] = "create"
        /\ nextId <= MaxSessions
        /\ store' = [store EXCEPT ![session_id] = HSet(@, data)]
        /\ queue' = enqueue(queue, session_id, data.priority)
        /\ expires' = expires \cup {session_id}
        /\ nextId' = nextId + 1
        /\ qlocal' = [qlocal EXCEPT ![t].session_handoff_id = session_id]
        /\ qpc' = [qpc EXCEPT ![t] = IF l.branch = "yes" THEN "clear" ELSE "idle"]
        /\ last' = IF l.branch = "yes" THEN last
                   ELSE [op |-> "answer_query", sid |-> l.user_id, arg |-> l.query,
                         ret |-> l.branch, pub |-> <<_notify_operators(session_id, data)>>]
        /\ UNCHANGED <<steps, pending_handoff, pending_action>>
        /\ RequestIdle

\* answer_query on "yes" and "no": conversation_state.clear_pending_action.
RequestClear(t) ==
    LET l == qlocal[t]
        r == clear_pending_action(pending_handoff, pending_action, l.user_id)
    IN  /\ qpc[t] = "clear"
        /\ pending_handoff' = r[2]
        /\ pending_action' = r[3]
        /\ qpc' = [qpc EXCEPT ![t] = "idle"]
        /\ last' = [op |-> "answer_query", sid |-> l.user_id, arg |-> l.query,
                    ret |-> l.branch, pub |-> <<>>]
        /\ UNCHANGED <<store, queue, expires, nextId, steps, qlocal>>
        /\ RequestIdle

\* answer_query offering the operator: create_handoff_confirmation.
RequestOffer(t) ==
    LET l == qlocal[t]
        r == create_handoff_confirmation(pending_handoff, pending_action, clock, l.user_id,
                                         l.query, l.contextualized_query, ttl_minutes)
    IN  /\ qpc[t] = "offer"
        /\ pending_handoff' = r[1]
        /\ pending_action' = r[2]
        /\ qpc' = [qpc EXCEPT ![t] = "idle"]
        /\ last' = [op |-> "answer_query", sid |-> l.user_id, arg |-> l.query,
                    ret |-> l.branch, pub |-> <<>>]
        /\ UNCHANGED <<store, queue, expires, nextId, steps, qlocal>>
        /\ RequestIdle

NextRequests ==
    \/ \E user_id \in Users, original_query \in OriginalQueries,
          contextualized_query \in Queries :
          OfferMade(user_id, original_query, contextualized_query)
    \/ \E t \in Requests, user_id \in Users, query \in Inbound,
          contextualized_query \in Queries :
          RequestGet(t, user_id, query, contextualized_query)
    \/ \E t \in Requests : RequestCreate(t)
    \/ \E t \in Requests : RequestClear(t)
    \/ \E t \in Requests : RequestOffer(t)

SpecRequests == Init /\ [][NextRequests]_vars

(* ------------------------------ claims -------------------------------- *)

StatusRank(status) ==
    CASE status = "waiting"  -> 1
      [] status = "assigned" -> 2
      [] status = "active"   -> 3
      [] status = "closed"   -> 4

HasStatus(st, s) == HasField(st, s, "status")

\* A record written by create_session (and not expired since).
Created(st, s) == HasField(st, s, "session_id")

Log(st, s) == json_loads(st[s]["messages"])

Pos(q, s) == CHOOSE i \in DOMAIN q : q[i] = s

Before(q, a, b) == a \in Range(q) /\ b \in Range(q) /\ Pos(q, a) < Pos(q, b)

\* The step is a call of op on session s.
Step(op, s) == steps' = steps + 1 /\ last'.op = op /\ last'.sid = s

\* C1: the status of a created session never moves backward along
\* waiting -> assigned -> active -> closed, whatever operation is called.
C1_StatusMonotonic ==
    [][\A s \in Ids :
          (Created(store, s) /\ Created(store', s))
              => StatusRank(store'[s]["status"]) >= StatusRank(store[s]["status"])]_vars

\* C2: a session id is in the queue if and only if its record exists with
\* status waiting.
C2_QueueIffWaiting ==
    \A s \in Ids :
        (s \in Range(queue)) <=> (HasStatus(store, s) /\ store[s]["status"] = "waiting")

\* C4 (as claimed): after create_session a new high session is before every
\* previously-queued normal session and after every previously-queued high
\* session; a new normal session is after every previously-queued session.
C4_HeadTailLawAsClaimed ==
    [][\A s \in SessionIds : Step("create_session", s) =>
          \A old \in Range(queue) :
              IF store'[s]["priority"] = "high"
              THEN /\ (HasField(store, old, "priority") /\ store[old]["priority"] = "normal")
                          => Before(queue', s, old)
                   /\ (HasField(store, old, "priority") /\ store[old]["priority"] = "high")
                          => Before(queue', old, s)
              ELSE Before(queue', old, s)]_vars

\* C4 (amended): after create_session a new high session is before every
\* previously-queued session, high ones included; a new normal session is
\* after every previously-queued session; the sessions queued before keep
\* their relative order.
C4_HeadTailLaw ==
    [][\A s \in SessionIds : Step("create_session", s) =>
          /\ s \in Range(queue')
          /\ \A old \in Range(queue) :
                IF store'[s]["priority"] = "high"
                THEN Before(queue', s, old)
                ELSE Before(queue', old, s)
          /\ \A a, b \in Range(queue) : Before(queue, a, b) => Before(queue', a, b)]_vars

\* A high session has just been created while an older high session and an
\* older normal session were queued.
C4_Witness ==
    /\ last.op = "create_session"
    /\ store[last.sid]["priority"] = "high"
    /\ \E h, n \in Range(queue) \ {last.sid} :
          /\ Created(store, h) /\ store[h]["priority"] = "high"
          /\ Created(store, n) /\ store[n]["priority"] = "normal"

\* C5: assign_agent on an id with no record returns False and changes
\* neither the queue nor any record of the store.
C5_AssignUnknown ==
    [][\A s \in Ids : (~Exists(store, s) /\ Step("assign_agent", s)) =>
          /\ last'.ret = FALSE
          /\ store' = store
          /\ queue' = queue
          /\ expires' = expires]_vars

\* assign_agent has just returned False for a missing record while another
\* session is queued.
C5_Witness ==
    /\ last.op = "assign_agent"
    /\ last.ret = FALSE
    /\ ~Exists(store, last.sid)
    /\ queue # <<>>

\* C6: assign_agent on an existing waiting session sets status assigned,
\* records the agent id and name given, and removes exactly that id from
\* the queue, the other entries keeping their order.
C6_AssignWaiting ==
    [][\A s \in Ids :
          (HasStatus(store, s) /\ store[s]["status"] = "waiting" /\ Step("assign_agent", s)) =>
              /\ last'.ret = TRUE
              /\ store'[s]["status"] = "assigned"
              /\ store'[s]["agent_id"] = last'.arg
              /\ store'[s]["agent_name"] = AgentName(last'.arg)
              /\ s \notin Range(queue')
              /\ queue' = SelectSeq(queue, LAMBDA x : x # s)
              /\ \A o \in Ids \ {s} : store'[o] = store[o]]_vars

\* Three sessions were created and the second in the queue was then assigned:
\* it was waiting, and two other sessions stay queued.
C6_Witness ==
    /\ steps = 4
    /\ nextId = 4
    /\ last.op = "assign_agent"
    /\ last.ret = TRUE
    /\ store[last.sid]["status"] = "assigned"
    /\ Len(queue) = 2
    /\ \E a, b \in Range(queue) : Before(queue, a, b) /\ a > last.sid /\ b < last.sid

\* C7: close_session called a second time with the same resolution on a
\* created session leaves status, resolution, message log and queue
\* membership as the first call left them.
C7_CloseIdempotent ==
    [][\A s \in Ids :
          (/\ Created(store, s)
           /\ last.op = "close_session" /\ last.sid = s
           /\ Step("close_session", s) /\ last'.arg = last.arg) =>
              /\ store'[s]["status"] = store[s]["status"]
              /\ store'[s]["resolution"] = store[s]["resolution"]
              /\ store'[s]["messages"] = store[s]["messages"]
              /\ (s \in Range(queue')) <=> (s \in Range(queue))]_vars

\* C8: close_session on an existing session, whatever its status, ends with
\* status closed, closed_at and resolution set, the system "chat ended"
\* message last in the log and the id absent from the queue; a queue that
\* did not hold the id is unchanged.
C8_CloseSession ==
    [][\A s \in Ids : (Exists(store, s) /\ Step("close_session", s)) =>
          /\ store'[s]["status"] = "closed"
          /\ store'[s]["closed_at"] = Now
          /\ store'[s]["resolution"] = last'.arg
          /\ HasField(store', s, "messages")
          /\ Log(store', s) # <<>>
          /\ Log(store', s)[Len(Log(store', s))]["role"] = "system"
          /\ Log(store', s)[Len(Log(store', s))]["content"] = ChatEnded
          /\ s \notin Range(queue')
          /\ (s \notin Range(queue) => queue' = queue)
          /\ queue' = SelectSeq(queue, LAMBDA x : x # s)]_vars

\* A session that had an agent assigned has just been closed while another
\* session is still queued.
C8_Witness ==
    /\ last.op = "close_session"
    /\ Created(store, last.sid)
    /\ store[last.sid]["status"] = "closed"
    /\ store[last.sid]["agent_id"] # ""
    /\ queue # <<>>

\* C9: add_message, activate_session (through connect_user and
\* connect_agent), close_session and assign_agent on an id with no record
\* leave it without a record and publish nothing.
C9_MissingSessionNoEffect ==
    [][\A s \in Ids :
          (/\ ~Exists(store, s)
           /\ steps' = steps + 1
           /\ last'.sid = s
           /\ last'.op \in {"add_message", "connect_user", "connect_agent",
                            "close_session", "assign_agent"}) =>
              /\ ~Exists(store', s)
              /\ last'.pub = <<>>]_vars

IsPrefix(a, b) == Len(a) <= Len(b) /\ \A i \in DOMAIN a : a[i] = b[i]

\* A task is at the HSET of add_message for session s and takes it.
Writes(w, s) ==
    /\ wpc[w] \in {"write", "close_write"}
    /\ wpc'[w] # wpc[w]
    /\ wlocal[w].sid = s

\* C3: add_message is atomic and the log append-only: under every
\* interleaving of the tasks' commands each step leaves the previous log of a
\* created session a prefix of the new one, and the write of every
\* add_message extends the log that is there by exactly its message, so that
\* no message of another writer is lost.
C3_AtomicAppend ==
    [][\A s \in Ids : Created(store, s) =>
          /\ HasField(store', s, "messages")
          /\ IsPrefix(Log(store, s), Log(store', s))
          /\ \A w \in Roles : Writes(w, s) =>
                Log(store', s) = Append(Log(store, s), wlocal[w].message)]_vars

\* The smallest offset at which any pattern of the list occurs in t.
EarliestOffset(patterns, t) ==
    CHOOSE i \in 0..Len(t) :
        /\ \E k \in DOMAIN patterns : OccursAt(t, patterns[k], i)
        /\ \A j \in 0..(i-1) : \A k \in DOMAIN patterns : ~OccursAt(t, patterns[k], j)

\* C10: when an affirmative and a negative phrase both occur the answer is
\* yes if the earliest offset of any affirmative phrase is smaller than the
\* earliest offset of any negative phrase and no if it is larger; when one
\* list matches the answer is that list's; when none does it is unclear.
C10_EarliestOffsetWins ==
    result # "none" =>
        LET t == Strip(Lower(text))
            is_yes == AnyMatches(yes_patterns, t)
            is_no == AnyMatches(no_patterns, t)
        IN  /\ (is_yes /\ is_no /\ EarliestOffset(yes_patterns, t) < EarliestOffset(no_patterns, t))
                  => result = "yes"
            /\ (is_yes /\ is_no /\ EarliestOffset(yes_patterns, t) > EarliestOffset(no_patterns, t))
                  => result = "no"
            /\ (is_yes /\ ~is_no) => result = "yes"
            /\ (is_no /\ ~is_yes) => result = "no"
            /\ (~is_yes /\ ~is_no) => result = "unclear"

\* C20: for a created session that is not closed, a connect_user or
\* connect_agent call after which both the user channel and the agent
\* channel are attached leaves the status active, whichever came second.
C20_SymmetricAttach ==
    [][\A s \in SessionIds :
          (/\ Step("connect_user", s) \/ Step("connect_agent", s)
           /\ Created(store, s)
           /\ store[s]["status"] # "closed"
           /\ active_connections'[s] = Roles) =>
              /\ HasStatus(store', s)
              /\ store'[s]["status"] = "active"]_vars

\* The agent attached to a created session first, the user second, and the
\* session is active.
C20_Witness ==
    /\ last.op = "connect_user"
    /\ steps = 3
    /\ Created(store, last.sid)
    /\ active_connections[last.sid] = Roles
    /\ store[last.sid]["status"] = "active"
    /\ store[last.sid]["agent_id"] # ""


\* The decoded value of a key that exists.
Payload(entry) == json_loads(entry.value)

\* C16: get_pending_action(U) returns the handoff slot whenever it exists,
\* a generic slot existing or not, else the generic slot if it exists, else
\* None; neither slot of any user is changed by the call.
C16_GetPendingAction ==
    [][\A u \in Users : Step("get_pending_action", u) =>
          /\ HasKey(pending_handoff[u]) => last'.ret = Payload(pending_handoff[u])
          /\ (~HasKey(pending_handoff[u]) /\ HasKey(pending_action[u]))
                => last'.ret = Payload(pending_action[u])
          /\ (~HasKey(pending_handoff[u]) /\ ~HasKey(pending_action[u]))
                => ~HasKey(last'.ret)
          /\ pending_handoff' = pending_handoff
          /\ pending_action' = pending_action]_vars

\* get_pending_action has just returned the handoff slot of a user whose
\* generic slot exists too.
C16_Witness ==
    /\ last.op = "get_pending_action"
    /\ HasKey(pending_handoff[last.sid])
    /\ HasKey(pending_action[last.sid])
    /\ last.ret = Payload(pending_handoff[last.sid])
    /\ last.ret.action_type = "handoff_confirmation"

\* C17: confirm_action(U, token) is True for every token, None included,
\* when a handoff slot is pending for U; when only a generic slot is pending
\* it is True if and only if the token is the slot's confirmation_token;
\* it is False when nothing is pending.
C17_ConfirmAction ==
    [][\A u \in Users : Step("confirm_action", u) =>
          /\ HasKey(pending_handoff[u]) => last'.ret = TRUE
          /\ (~HasKey(pending_handoff[u]) /\ HasKey(pending_action[u]))
                => (last'.ret = TRUE
                      <=> last'.arg = Payload(pending_action[u]).confirmation_token)
          /\ (~HasKey(pending_handoff[u]) /\ ~HasKey(pending_action[u]))
                => last'.ret = FALSE]_vars

\* confirm_action has just refused a wrong token for a user with only a
\* generic slot.
C17_Witness ==
    /\ last.op = "confirm_action"
    /\ ~HasKey(pending_handoff[last.sid])
    /\ HasKey(pending_action[last.sid])
    /\ last.arg \in Tokens
    /\ last.arg # Payload(pending_action[last.sid]).confirmation_token
    /\ last.ret = FALSE

\* C18: clear_pending_action(U) removes the handoff slot and the generic
\* slot of U, so that get_pending_action(U) is None afterwards; it returns
\* True if and only if one of the two existed; the slots of the other users
\* are unchanged.
C18_ClearPendingAction ==
    [][\A u \in Users : Step("clear_pending_action", u) =>
          /\ ~HasKey(pending_handoff'[u])
          /\ ~HasKey(pending_action'[u])
          /\ ~HasKey(get_pending_action(pending_handoff', pending_action', u))
          /\ last'.ret = (HasKey(pending_handoff[u]) \/ HasKey(pending_action[u]))
          /\ \A o \in Users \ {u} :
                /\ pending_handoff'[o] = pending_handoff[o]
                /\ pending_action'[o] = pending_action[o]]_vars

\* clear_pending_action has just returned True for a user while a slot of
\* the other user is pending.
C18_Witness ==
    /\ last.op = "clear_pending_action"
    /\ last.ret = TRUE
    /\ ~HasKey(pending_handoff[last.sid])
    /\ ~HasKey(pending_action[last.sid])
    /\ \E o \in Users \ {last.sid} : HasKey(pending_handoff[o]) \/ HasKey(pending_action[o])

\* C19: create_handoff_confirmation(U) stores a new handoff slot for U and
\* changes no generic slot; set_pending_action(U) stores a new generic slot
\* for U and changes no handoff slot; the slots of the other users are
\* unchanged, and both slots of U can exist at once.
C19_OwnNamespace ==
    [][\A u \in Users :
          /\ Step("create_handoff_confirmation", u) =>
                /\ HasKey(pending_handoff'[u])
                /\ Payload(pending_handoff'[u]).action_type = "handoff_confirmation"
                /\ Payload(pending_handoff'[u]).data.original_query = last'.arg
                /\ Payload(pending_handoff'[u]).created_at = clock
                /\ pending_action' = pending_action
                /\ \A o \in Users \ {u} : pending_handoff'[o] = pending_handoff[o]
          /\ Step("set_pending_action", u) =>
                /\ HasKey(pending_action'[u])
                /\ Payload(pending_action'[u]).action_type = last'.arg
                /\ Payload(pending_action'[u]).confirmation_token = last'.ret
                /\ Payload(pending_action'[u]).created_at = clock
                /\ pending_handoff' = pending_handoff
                /\ \A o \in Users \ {u} : pending_action'[o] = pending_action[o]]_vars

\* create_handoff_confirmation has just been called, the third call on the
\* gate of one user, whose generic slot is still there: both slots exist.
C19_Witness ==
    /\ last.op = "create_handoff_confirmation"
    /\ steps = 3
    /\ HasKey(pending_handoff[last.sid])
    /\ HasKey(pending_action[last.sid])
    /\ Payload(pending_handoff[last.sid]).created_at = clock
    /\ \A o \in Users \ {last.sid} : ~HasKey(pending_handoff[o]) /\ ~HasKey(pending_action[o])


\* "da", the Russian yes.
Da == <<"U+0434", "U+0430">>

\* The handoff confirmation pending for a user.
Awaiting(u) ==
    /\ HasKey(get_pending_action(pending_handoff, pending_action, u))
    /\ get_pending_action(pending_handoff, pending_action, u).action_type = "handoff_confirmation"

C13_OfferOpensGate ==
    [][\A u \in Users :
          (Step("answer_query", u) /\ last'.ret = "offer") =>
              /\ HasKey(pending_handoff'[u])
              /\ Payload(pending_handoff'[u]).action_type = "handoff_confirmation"
              /\ Payload(pending_handoff'[u]).user_id = u
              /\ Payload(pending_handoff'[u]).data.original_query = last'.arg
              /\ Awaiting(u)'
              /\ \A o \in Users \ {u} : pending_handoff'[o] = pending_handoff[o]
              /\ pending_action' = pending_action
              /\ store' = store
              /\ queue' = queue
              /\ nextId' = nextId
              /\ expires' = expires
              /\ last'.pub = <<>>]_vars

\* An offer has just been made while a session was queued: the confirmation
\* is pending and the queue holds that session alone.
C13_Witness ==
    /\ last.op = "answer_query"
    /\ last.ret = "offer"
    /\ HasKey(pending_handoff[last.sid])
    /\ Payload(pending_handoff[last.sid]).created_at = clock
    /\ nextId = 2
    /\ queue = <<1>>

\* C14: a direct decision creates a session at once, in status waiting,
\* enqueues it and publishes exactly one new_support_request for it; the
\* gate is not opened: no slot of any user changes.
C14_DirectCreatesSession ==
    [][\A u \in Users :
          (Step("answer_query", u) /\ last'.ret = "direct") =>
              /\ nextId' = nextId + 1
              /\ Created(store', nextId)
              /\ store'[nextId]["status"] = "waiting"
              /\ \A s \in Ids \ {nextId} : store'[s] = store[s]
              /\ Range(queue') = Range(queue) \cup {nextId}
              /\ Len(queue') = Len(queue) + 1
              /\ Len(last'.pub) = 1
              /\ last'.pub[1].event = "new_support_request"
              /\ last'.pub[1].session = nextId
              /\ pending_handoff' = pending_handoff
              /\ pending_action' = pending_action
              /\ ~Awaiting(u)']_vars

\* A direct request has just been answered, the only call so far: the
\* session is queued and no confirmation is pending.
C14_Witness ==
    /\ last.op = "answer_query"
    /\ last.ret = "direct"
    /\ steps = 1
    /\ Created(store, 1)
    /\ store[1]["status"] = "waiting"
    /\ queue = <<1>>
    /\ \A u \in Users : ~HasKey(pending_handoff[u]) /\ ~HasKey(pending_action[u])

\* C15: a handoff confirmation is stored with a time to live of ttl_minutes
\* = 10 minutes; get_pending_action(U) returns it as long as that time has
\* not passed and nothing cleared it; once it has passed the handoff slot is
\* gone, get_pending_action(U) returns None when no generic action is
\* pending for U, and a "da" from U creates no session.
C15_HandoffTtl ==
    [][\A u \in Users :
          /\ HasKey(pending_handoff[u]) => clock < pending_handoff[u].deadline
          /\ (Step("create_handoff_confirmation", u)
                \/ (Step("answer_query", u) /\ last'.ret = "offer")) =>
                /\ HasKey(pending_handoff'[u])
                /\ pending_handoff'[u].deadline = clock + ((ttl_minutes * 60) \div TimeUnit)
                /\ Payload(pending_handoff'[u]).expires_at = pending_handoff'[u].deadline
          /\ (HasKey(pending_handoff[u]) /\ clock' = clock + 1) =>
                IF clock' < pending_handoff[u].deadline
                THEN /\ pending_handoff'[u] = pending_handoff[u]
                     /\ get_pending_action(pending_handoff', pending_action', u)
                           = Payload(pending_handoff[u])
                ELSE /\ ~HasKey(pending_handoff'[u])
                     /\ ~Awaiting(u)'
                     /\ ~HasKey(pending_action'[u]) =>
                           ~HasKey(get_pending_action(pending_handoff', pending_action', u))
          /\ (~HasKey(pending_handoff[u]) /\ Step("answer_query", u) /\ last'.arg = Da) =>
                /\ store' = store
                /\ queue' = queue
                /\ nextId' = nextId
                /\ last'.pub = <<>>]_vars

\* Ten minutes after the start a "da" has just been answered, the second
\* call: it was not taken for a confirmation but answered with a new offer,
\* stored at that time; no session exists.
C15_Witness ==
    /\ last.op = "answer_query"
    /\ last.arg = Da
    /\ last.ret = "offer"
    /\ steps = 2
    /\ clock = (ttl_minutes * 60) \div TimeUnit
    /\ nextId = 1
    /\ queue = <<>>
    /\ HasKey(pending_handoff[last.sid])
    /\ Payload(pending_handoff[last.sid]).created_at = clock
    /\ Payload(pending_handoff[last.sid]).data.original_query = Da

\* C28: once a session has an agent, a later assign_agent with another
\* agent id (dashboard endpoint) keeps the recorded agent and the status,
\* and a later connect_agent with another agent id keeps the recorded agent.
C28_DoubleAssignGuarded ==
    [][\A s \in SessionIds :
          (/\ Created(store, s)
           /\ Created(store', s)
           /\ store[s]["agent_id"] # ""
           /\ store[s]["status"] \in {"assigned", "active"}) =>
              /\ (Step("assign_agent", s) /\ last'.arg # store[s]["agent_id"]) =>
                    /\ store'[s]["agent_id"] = store[s]["agent_id"]
                    /\ store'[s]["agent_name"] = store[s]["agent_name"]
                    /\ store'[s]["status"] = store[s]["status"]
              /\ (Step("connect_agent", s) /\ last'.arg # store[s]["agent_id"]) =>
                    /\ store'[s]["agent_id"] = store[s]["agent_id"]
                    /\ store'[s]["agent_name"] = store[s]["agent_name"]]_vars

\* The list get_queue returns, as ids.
VisibleQueue == get_queue(store, queue)

\* C29: get_queue_position(s) is the 1-based index of s in the list that
\* get_queue returns, and None (0) exactly when s is not in that list.
C29_PositionAgreesWithQueue ==
    \A s \in Ids :
        IF s \in Range(VisibleQueue)
        THEN /\ get_queue_position(queue, s) # 0
             /\ VisibleQueue[get_queue_position(queue, s)] = s
        ELSE get_queue_position(queue, s) = 0

\* The socket registered for a role of session s.
Attached(s, role) == channel[s][role] # NoSocket

\* Both peers of session s are attached, with their connection tasks running.
BothAttached(s) ==
    /\ Attached(s, "user") /\ handlers[channel[s]["user"]].state = "running"
    /\ Attached(s, "agent") /\ handlers[channel[s]["agent"]].state = "running"

\* C21: whenever the user channel and the agent channel of a session are
\* both attached, in either order, the user channel has been sent an
\* agent_joined event carrying the id of the attached agent.
C21_AgentJoinedBothOrders ==
    \A s \in SessionIds :
        BothAttached(s) =>
            AgentJoined(handlers[channel[s]["agent"]].agent_id)
                \in Range(inbox[channel[s]["user"]])

\* C22: an agent's non-empty message on a session with both peers attached
\* appends exactly one entry (role agent, the content) to the message log,
\* and the user channel receives exactly one message event with role agent
\* and the same content; no other socket receives anything.
C22_AgentMessageDelivered ==
    [][\A s \in SessionIds :
          (/\ Step("agent_frame", s)
           /\ last'.ret = "message"
           /\ BothAttached(s)
           /\ Created(store, s)) =>
              LET content == Strip(last'.arg.content)
                  u == channel[s]["user"]
              IN  /\ content # <<>>
                  /\ Len(Log(store', s)) = Len(Log(store, s)) + 1
                  /\ IsPrefix(Log(store, s), Log(store', s))
                  /\ Log(store', s)[Len(Log(store', s))].role = "agent"
                  /\ Log(store', s)[Len(Log(store', s))].content = content
                  /\ Len(inbox'[u]) = Len(inbox[u]) + 1
                  /\ IsPrefix(inbox[u], inbox'[u])
                  /\ inbox'[u][Len(inbox'[u])].type = "message"
                  /\ inbox'[u][Len(inbox'[u])].role = "agent"
                  /\ inbox'[u][Len(inbox'[u])].content = content
                  /\ \A w \in Sockets \ {u} : inbox'[w] = inbox[w]]_vars

C22_Witness ==
    /\ last.op = "agent_frame"
    /\ last.ret = "message"
    /\ last.arg.content = <<" ", "hello", " ">>
    /\ BothAttached(last.sid)
    /\ Len(Log(store, last.sid)) = 2
    /\ \E i \in DOMAIN inbox[channel[last.sid]["user"]] :
           inbox[channel[last.sid]["user"]][i] = MessageEvent("agent", <<"hello">>,
               handlers[channel[last.sid]["agent"]].agent_id)

\* The connection task of socket w ends in this step by a client disconnect
\* or a handler error.
TaskEnds(w) ==
    /\ steps' = steps + 1
    /\ handlers[w].state = "running"
    /\ handlers'[w].state = "ended"
    /\ \/ last'.op \in {"user_disconnect", "agent_disconnect"}
       \/ last'.op \in {"user_frame", "agent_frame"} /\ last'.ret = "error"

Peer(role) == IF role = "user" THEN "agent" ELSE "user"

LeftEvent(role) == IF role = "user" THEN UserDisconnected ELSE AgentDisconnected

\* C23: when a peer's connection task ends, by a client disconnect or by a
\* handler error, while the other peer is attached, the vacated channel is
\* detached, the remaining peer is sent user_disconnected or
\* agent_disconnected, and the remaining peer stays attached.
C23_PeerNotifiedOnTaskEnd ==
    [][\A w \in Sockets :
          (/\ TaskEnds(w)
           /\ channel[handlers[w].sid][handlers[w].role] = w
           /\ BothAttached(handlers[w].sid)) =>
              LET s == handlers[w].sid
                  role == handlers[w].role
                  peer == channel[s][Peer(role)]
              IN  /\ channel'[s][role] = NoSocket
                  /\ channel'[s][Peer(role)] = peer
                  /\ inbox'[peer] = Append(inbox[peer], LeftEvent(role))]_vars

\* C24: a user or agent disconnect leaves the session record and the queue
\* as they were: status, assigned agent, message log, queue membership.
C24_DetachKeepsSession ==
    [][\A s \in SessionIds :
          (Step("user_disconnect", s) \/ Step("agent_disconnect", s)) =>
              /\ store' = store
              /\ queue' = queue]_vars

C24_Witness ==
    /\ last.op \in {"user_disconnect", "agent_disconnect"}
    /\ Created(store, last.sid)
    /\ store[last.sid]["status"] = "active"
    /\ Attached(last.sid, Peer(handlers[last.arg].role))
    /\ handlers[last.arg].state = "ended"
    /\ channel[last.sid][handlers[last.arg].role] = NoSocket

\* C25: send_to_user and send_to_agent for a session whose target role is
\* not registered do nothing and raise no error: no socket receives
\* anything, the registry, the session store and the sender's task are
\* unchanged.
C25_SendToAbsentPeer ==
    [][\A s \in Ids :
          /\ (Step("agent_frame", s) /\ last'.ret = "typing"
                  /\ ~is_user_connected(channel, s)) =>
                 /\ inbox' = inbox
                 /\ channel' = channel
                 /\ ws_to_session' = ws_to_session
                 /\ handlers' = handlers
                 /\ store' = store
          /\ (Step("user_disconnect", s) /\ ~is_agent_connected(channel, s)) =>
                 /\ inbox' = inbox
                 /\ channel'[s]["agent"] = NoSocket
                 /\ store' = store]_vars

C25_Witness ==
    /\ last.op = "agent_frame"
    /\ last.ret = "typing"
    /\ ~is_user_connected(channel, last.sid)
    /\ is_agent_connected(channel, last.sid)
    /\ handlers[channel[last.sid]["agent"]].state = "running"

\* C26: an unparseable inbound frame on a user or agent channel is dropped
\* without effect on the session and the connection stays open: the channel
\* stays registered and its task keeps running.
C26_MalformedDropped ==
    [][\A w \in Sockets :
          (/\ steps' = steps + 1
           /\ last'.op \in {"user_frame", "agent_frame"}
           /\ last'.arg = Malformed
           /\ handlers[w].state = "running"
           /\ channel[handlers[w].sid][handlers[w].role] = w
           /\ last'.sid = handlers[w].sid
           /\ (last'.op = "user_frame") = (handlers[w].role = "user")) =>
              /\ store' = store
              /\ handlers'[w].state = "running"
              /\ channel'[handlers[w].sid][handlers[w].role] = w]_vars

\* The entries of the feedback log written for feedback_id f.
Accepted(ff, f) == {i \in DOMAIN ff : ff[i].feedback_id = f}

\* C27: for each feedback_id at most one submission is accepted, moving the
\* record from pending to the feedback log once; a submission for an id with
\* nothing pending is answered not-found and changes nothing; a session is
\* created only by an accepted "no", so at most once per id, and without
\* touching the pending-action gate.
C27_FeedbackSubmittedOnce ==
    /\ [](\A f \in FeedbackIds :
             /\ Cardinality(Accepted(feedback_file, f)) <= 1
             /\ pending_feedback[f] # NoHash => Accepted(feedback_file, f) = {})
    /\ [][\A f \in FeedbackIds :
             (Step("submit_feedback", f) \/ Step("router_submit", f)) =>
                 /\ (last'.ret = "200") =
                        (pending_feedback[f] # NoHash /\ last'.arg \in {"yes", "no"})
                 /\ last'.ret = "200" =>
                        /\ pending_feedback'[f] = NoHash
                        /\ Len(feedback_file') = Len(feedback_file) + 1
                        /\ feedback_file'[Len(feedback_file')].feedback_id = f
                        /\ feedback_file'[Len(feedback_file')].rating = last'.arg
                 /\ last'.ret # "200" =>
                        /\ UNCHANGED <<feedback_vars, store, queue, nextId>>
                        /\ (pending_feedback[f] = NoHash /\ last'.arg \in {"yes", "no"})
                               => last'.ret = "404"
                 /\ nextId' # nextId =>
                        /\ last'.op = "submit_feedback"
                        /\ last'.ret = "200"
                        /\ last'.arg = "no"
                        /\ nextId' = nextId + 1
                        /\ Created(store', nextId)
                        /\ store'[nextId]["query"] = pending_feedback[f].original_query
                 /\ UNCHANGED <<pending_handoff, pending_action>>]_vars

C27_Witness ==
    /\ last.op = "submit_feedback"
    /\ last.ret = "404"
    /\ last.arg = "no"
    /\ Accepted(feedback_file, last.sid) # {}
    /\ feedback_file[1].rating = "no"
    /\ nextId = 2
    /\ Created(store, 1)

\* The time agent a sent its last heartbeat, from its entry in the hash.
LastSeen(a) == json_loads(agents.hash[a]).last_seen

\* C30: presence expires per agent: an agent whose entry was not refreshed
\* by mark_agent_online within the heartbeat window is not returned by
\* get_online_agents, whatever heartbeats other agents send.
C30_PresenceExpiresPerAgent ==
    \A a \in get_online_agents(agents) :
        clock < LastSeen(a) + (presence_ttl \div PresenceUnit)

\* C31: the TTL bounds the existence of every session record: every key
\* that exists has a time to live, so none stays for ever.
C31_EveryRecordExpires ==
    \A s \in Ids : Exists(store, s) => s \in expires

\* The structural writes of SupportHandoff.
StructuralWrites ==
    {"create_session", "add_message", "assign_agent", "activate_session", "close_session"}

\* C32: every structural write to an existing session sets its time to live
\* to the full window again.
C32_WriteRefreshesTtl ==
    [][\A s \in SessionIds :
          (/\ steps' = steps + 1
           /\ last'.op \in StructuralWrites
           /\ last'.sid = s
           /\ Created(store', s)) =>
              /\ s \in expires'
              /\ session_deadline'[s] = clock + (session_ttl \div SessionUnit)]_vars

\* The agent messages of the log of s that no user socket of s has received.
Undelivered(st, ib, s) ==
    {i \in DOMAIN Log(st, s) :
        /\ Log(st, s)[i].role = "agent"
        /\ \A w \in Sockets :
               (handlers[w].role = "user" /\ handlers[w].sid = s) =>
                   \A j \in DOMAIN ib[w] :
                       ~(ib[w][j].type = "message" /\ ib[w][j].role = "agent"
                             /\ ib[w][j].content = Log(st, s)[i].content)}

\* C33: messages appended while the receiving peer was not attached reach
\* it when it next attaches: an attaching agent is sent a history event
\* holding the whole log, an attaching user is sent every agent message
\* that no user channel of the session has received.
C33_AbsentPeerCatchesUp ==
    [][\A s \in SessionIds :
          /\ (Step("agent_websocket", s) /\ last'.ret = "accepted" /\ Created(store, s)) =>
                 History(Log(store', s)) \in Range(inbox'[last'.arg])
          /\ (Step("user_websocket", s) /\ last'.ret = "accepted" /\ Created(store, s)) =>
                 \A i \in Undelivered(store, inbox, s) :
                     \E j \in DOMAIN inbox'[last'.arg] :
                         /\ inbox'[last'.arg][j].type \in {"message", "history"}
                         /\ \/ inbox'[last'.arg][j].content = Log(store, s)[i].content
                            \/ Log(store, s)[i] \in Range(inbox'[last'.arg][j].messages)]_vars

\* The messages of one sender in the log of s, in log order.
SenderLog(st, s, role) == SelectSeq(Log(st, s), LAMBDA m : m.role = role)

\* C34: the messages of one sender keep their order in the log: what the
\* sender has appended stays in the log, before what it appends later,
\* however the commands of the other sender interleave.
C34_SenderOrderKept ==
    [][\A s \in SessionIds : \A role \in Roles :
          (Created(store, s) /\ Created(store', s)) =>
              IsPrefix(SenderLog(store, s, role), SenderLog(store', s, role))]_vars

\* C35: a user or agent connection attempt for an id with no record, never
\* created or expired, is closed with 4004 before anything is attached: the
\* registry, the reverse index, the store, the queue, the agents hash and
\* every socket's events are unchanged, and the handler has returned.
C35_MissingSessionRejected ==
    [][\A s \in Ids :
          ((Step("user_websocket", s) \/ Step("agent_websocket", s))
               /\ ~Exists(store, s)) =>
              /\ last'.ret = "4004"
              /\ handlers'[last'.arg].state = "ended"
              /\ UNCHANGED <<channel, ws_to_session, active_connections,
                             store, queue, agents, inbox>>]_vars

\* An agent was turned away from a session that has expired and is still
\* listed in the queue; nothing is registered for it, no agent is online.
C35_Witness ==
    /\ last.op = "agent_websocket"
    /\ last.ret = "4004"
    /\ last.sid \in Range(queue)
    /\ ~Exists(store, last.sid)
    /\ \A role \in Roles : channel[last.sid][role] = NoSocket
    /\ agents.hash = NoHash

\* An answer_query call that took the "yes" branch and created its session.
CreatedOnYes(t) ==
    /\ qlocal[t] # <<>>
    /\ qlocal[t].branch = "yes"
    /\ qlocal[t].session_handoff_id # 0

\* C36: one pending handoff confirmation yields at most one session: two
\* answer_query calls of the same user that read the same confirmation and
\* parse "yes" do not both create a session.
C36_OneSessionPerConfirmation ==
    \A t1 \in Requests : \A t2 \in Requests \ {t1} :
        ~(/\ CreatedOnYes(t1)
          /\ CreatedOnYes(t2)
          /\ qlocal[t1].user_id = qlocal[t2].user_id
          /\ qlocal[t1].pending = qlocal[t2].pending)

\* Socket w, a running handler of the given role whose place in the
\* registry was taken by a later attach of the same role, disconnects in
\* this step.
ReplacedDisconnects(w, role) ==
    /\ steps' = steps + 1
    /\ last'.op = (IF role = "user" THEN "user_disconnect" ELSE "agent_disconnect")
    /\ last'.arg = w
    /\ handlers[w].state = "running"
    /\ handlers[w].role = role
    /\ channel[handlers[w].sid][role] \notin {w, NoSocket}

\* C37: when the replaced (old) channel of a role disconnects, the channel
\* that replaced it stays attached and the other peer is sent no
\* user_disconnected / agent_disconnected event: its inbox is unchanged.
C37_ReplacedChannelLeavesQuietly ==
    [][\A w \in Sockets : \A role \in Roles :
          ReplacedDisconnects(w, role) =>
              LET s == handlers[w].sid
                  peer == channel[s][Peer(role)]
              IN  /\ channel'[s][role] = channel[s][role]
                  /\ channel'[s][Peer(role)] = peer
                  /\ peer # NoSocket => inbox'[peer] = inbox[peer]]_vars

\* A running handler of the role is attached to session s.
LiveChannel(s, role) ==
    \E w \in Sockets :
        /\ handlers[w].state = "running"
        /\ handlers[w].sid = s
        /\ handlers[w].role = role

\* C38: the connection registry only holds channels whose handler is still
\* running: a socket whose handler has ended, by a disconnect, an error or
\* the agent's 'close', is neither in active_connections nor in
\* ws_to_session, and is_agent_connected / is_user_connected are false when
\* no running handler of that role exists for the session.
C38_RegistryHoldsLiveChannels ==
    /\ \A w \in Sockets :
          handlers[w].state # "running" =>
              /\ ws_to_session[w] = NoSession
              /\ \A s \in Ids : \A role \in Roles : channel[s][role] # w
    /\ \A s \in Ids :
          /\ is_agent_connected(channel, s) => LiveChannel(s, "agent")
          /\ is_user_connected(channel, s) => LiveChannel(s, "user")

\* C39: once a session is closed its message log is final: the log of a
\* closed session does not change, so the system message close_session
\* appended stays its last entry.
C39_ClosedLogIsFinal ==
    [][\A s \in SessionIds :
          (/\ Created(store, s)
           /\ store[s]["status"] = "closed"
           /\ Created(store', s)) =>
              Log(store', s) = Log(store, s)]_vars

\* Agent agent_id has a running, registered connection other than socket w.
OtherLiveConnection(w, agent_id) ==
    \E v \in Sockets \ {w} :
        /\ handlers'[v].state = "running"
        /\ handlers'[v].role = "agent"
        /\ handlers'[v].agent_id = agent_id
        /\ channel'[handlers'[v].sid]["agent"] = v

\* C40: an agent is marked offline only when its last live connection ends:
\* when one connection of the agent disconnects while another connection of
\* the same agent id stays attached, within the heartbeat window, the agent
\* is still returned by get_online_agents.
C40_OfflineOnlyOnLastConnection ==
    [][\A w \in Sockets :
          (/\ steps' = steps + 1
           /\ last'.op = "agent_disconnect"
           /\ last'.arg = w
           /\ handlers[w].agent_id \in get_online_agents(agents)
           /\ OtherLiveConnection(w, handlers[w].agent_id)) =>
              handlers[w].agent_id \in get_online_agents(agents')]_vars

====
